---- MODULE Spec2Model ----
(***************************************************************************)
(* Model of the request engine of Cultured-Downloader-CLI:                 *)
(*   - the Pixiv mobile client: access-token refresh (RefreshAccessToken,  *)
(*     RefreshTokenIfReq, GetHeaders) and the retry loop of SendRequest;   *)
(*   - the channel-as-semaphore worker pools of getPostDetails and         *)
(*     getFanboxPosts (Pixiv Fanbox).                                      *)
(***************************************************************************)
EXTENDS Integers, Sequences, FiniteSets, TLC

(***************************************************************************)
(* Bounds of the model.  utils.RETRY_COUNTER and utils.MAX_API_CALLS are    *)
(* set in the utils constants file; the model keeps them small and every   *)
(* statement below is written for an arbitrary value.                      *)
(***************************************************************************)
NCallers == 2
RETRY_COUNTER == 3
MaxTime == 2
MaxJobs == 3
MAX_API_CALLS == 2
MaxPage == 3
MaxIds == 2
MaxEntities == 2
MaxFiles == 2
MaxChunks == 2
MaxTokens == 2
MaxGdPages == 3
MaxNodes == 5
MaxTags == 4
MaxPaths == 2

\* "expiresIn := oauthJson.ExpiresIn - 15"
TokenMargin == 15
\* entries of one page of the listings of the mobile API (curOffset += 30)
PerPage == 30

Callers == 1..NCallers

\* accessToken values: NoToken is the empty string, OldToken a token stored
\* by an earlier refresh; the auth server issues OldToken + k at its k-th
\* exchange.
NoToken == 0
OldToken == 1
\* reqArgs.Headers without an Authorization entry
NoAuth == -1

\* TTLs (seconds) the auth server may declare in its answer
TTLs == {10, 16, 3600}

(***************************************************************************)
(* Answers of the transport (client.Do): a transport error, or a response  *)
(* with a status code and a body that decodes or not.                      *)
(***************************************************************************)
NetErr == [kind |-> "err", status |-> 0, decodable |-> FALSE]
NoCause == [kind |-> "none", status |-> 0, decodable |-> FALSE]
Res(s, d) == [kind |-> "res", status |-> s, decodable |-> d]
Ok200 == Res(200, TRUE)
Responses == {NetErr} \cup {Res(s, d) : s \in {200, 429}, d \in BOOLEAN}
                      \cup {Res(s, TRUE) : s \in {404, 500}}

\* error values: the message, the attempt count it states (0: none) and the
\* failure it wraps (NoCause: none)
Nil == [msg |-> "nil", count |-> 0, cause |-> NoCause]
\* fmt.Errorf("request to %s failed after %d retries", reqArgs.Url, utils.RETRY_COUNTER)
ExhaustedErr == [msg |-> "request failed after retries", count |-> RETRY_COUNTER, cause |-> NoCause]
\* the error of utils.LoadJsonFromResponse
DecodeErr == [msg |-> "failed to unmarshal json", count |-> 0, cause |-> NoCause]
\* the errors of RefreshAccessToken
RefreshConnErr == [msg |-> "failed to refresh token: connection", count |-> 0, cause |-> NetErr]
RefreshRespErr(s) == [msg |-> "failed to refresh token: response", count |-> 0, cause |-> Res(s, FALSE)]
\* the error of utils.LoadJsonFromResponse for the answer of the auth server
RefreshDecodeErr == [msg |-> "failed to unmarshal json", count |-> 0, cause |-> Res(200, FALSE)]
RefreshErrors == {RefreshConnErr, RefreshRespErr(400), RefreshDecodeErr}

VARIABLES
    \* PixivMobile.accessTokenMap, accessTokenMu (0: unlocked, c: held by c)
    accessToken, expiresAt, accessTokenMu,
    \* time.Now()
    now,
    \* number of token exchanges the auth server has received
    exchanges,
    \* the answers the transport may give in this run
    transport,
    \* per caller of SendRequest
    pc,          \* position in GetArtworkDetails/SendRequest
    checkStatus, \* reqArgs.CheckStatus
    withHeaders, \* the caller sets reqArgs.Headers to pixiv.GetHeaders()
    hdrs,        \* Authorization entry of reqArgs.Headers
    refreshed,   \* result of RefreshTokenIfReq
    oauth,       \* oauthJson of the running RefreshAccessToken
    reqAuth,     \* Authorization header of req
    i,           \* loop counter of SendRequest
    hist,        \* answers of the transport to this call's attempts, in order
    sentWith,    \* token stored in accessTokenMap when the latest attempt was sent
    ret          \* error returned by SendRequest

tokVars == <<accessToken, expiresAt, accessTokenMu, now, exchanges, transport>>
callVars == <<pc, checkStatus, withHeaders, hdrs, refreshed, oauth, reqAuth, i, hist, sentWith, ret>>

VARIABLES
    \* the worker pools of getPostDetails and getFanboxPosts
    fn,          \* the function that runs the pool ("none": no pool runs)
    njobs,       \* len(postIds), respectively len(paginatedUrls)
    minPage, maxPage, hasMax, \* utils.GetMinMaxFromStr(pageNum) (getFanboxPosts)
    mainPc,      \* position of the goroutine that runs the pool
    idx,         \* position of the range loop (1-based)
    queue,       \* number of elements buffered in queue
    queueClosed, \* close(queue) was called
    wg,          \* counter of the sync.WaitGroup
    resChan, errChan, \* elements buffered in resChan and errChan
    chansClosed, \* close(resChan) (and close(errChan)) was called
    logged,      \* failures passed to utils.LogError by getFanboxPosts
    worker,      \* position of the goroutine of each job
    wres,        \* answer of request.CallRequest in each goroutine
    crashed      \* the process died of a panic no goroutine recovered

poolVarsButPc == <<fn, njobs, minPage, maxPage, hasMax, idx, queue, queueClosed, wg,
                   resChan, errChan, chansClosed, logged, worker, wres, crashed>>
poolVars == <<fn, njobs, minPage, maxPage, hasMax, mainPc, idx, queue, queueClosed, wg,
              resChan, errChan, chansClosed, logged, worker, wres, crashed>>
VARIABLES
    \* the listing loops (web tagSearch, PixivMobile.GetIllustratorPosts,
    \* PixivMobile.tagSearch) and the batch PixivMobile.getMultipleArtworkDetails
    lfn,         \* the function that runs ("none": none of them)
    lpc,         \* its position
    artworkType, \* argument of GetIllustratorPosts
    page,        \* web tagSearch: page
    minOffset, maxOffset, curOffset, \* locals of the mobile listing loops
    params,      \* the entries p, offset and type of params
    nextUrl,     \* nextUrl != ""
    artworkIds,  \* web tagSearch: the accumulated ids, <<page, position>>
    errSlice,    \* the errors collected by the function
    reqLog,      \* the listing requests issued, in order, with their answers
    nIds, bIdx,  \* len(artworkIds) and idx of getMultipleArtworkDetails
    ugoiras,     \* the artworks collected hold an ugoira
    ugLeft,      \* iterations CheckForUgoira still has to make
    sleeps,      \* number of calls of pixiv.Sleep() / PixivSleep()
    calls,       \* number of calls of SendRequest made by the function
    lret         \* the error (or hasErr) the function returns

lstVars == <<lfn, lpc, artworkType, page, minOffset, maxOffset, curOffset, params, nextUrl,
             artworkIds, errSlice, reqLog, nIds, bIdx, ugoiras, ugLeft, sleeps, calls, lret>>
VARIABLES
    ugoiraSlice, \* CheckForUgoira: the Ugoira entries appended, with the error of their request
    details,     \* the details appended by the sequential batches, by job
    dIdx,        \* web getMultipleArtworkDetails: position of the range loop
    panicked,    \* a run-time panic ended the sequential batch
    postIds,     \* what the pool function returns: the jobs whose answer was parsed
    pret,        \* the error the pool function returns
    \* GDrive.GetFolderContents
    gpc,         \* position, in GetFolderContents or in GetFileDetails
    pageToken,   \* pageToken (0: "")
    gReqs,       \* the requests made, with the pageToken sent and the answer
    files,       \* files, and the list returned once the function is done
    gret,        \* the error returned
    \* the downloads of request.DownloadUrls
    dpc,         \* position of the download of each file
    size,        \* chunks of the body of each file
    tmp,         \* chunks written to the temporary path of each file (-1: no such file)
    dest         \* chunks of the file at the destination path (-1: no such file)

seqVars == <<ugoiraSlice, details, dIdx, panicked>>
retVars == <<postIds, pret>>
gdVars == <<gpc, pageToken, gReqs, files, gret>>
dlVars == <<dpc, size, tmp, dest>>
VARIABLES
    \* utils.LogError and LogMessageToPath, per caller
    logPc,       \* position in the logging function
    logFn,       \* the function the caller calls
    logArg,      \* LogError: err != nil, errorMsg != ""
    logMut,      \* var logMut sync.Mutex (0: unlocked, c: held by c)
    logToPathMutex, \* var logToPathMutex sync.Mutex
    opened,      \* the caller holds the log file open
    written      \* the writes each log file received, in order, <<caller, write>>

VARIABLES
    \* GDrive.GetNestedFolderContents
    tree,        \* the folder tree behind the API: parent and kind of every entry
    npc,         \* position
    nested       \* what the function returned

logVars == <<logPc, logFn, logArg, logMut, logToPathMutex, opened, written>>
VARIABLES
    \* the decode target of the callers of PixivMobile.SendRequest
    resBody,     \* the body of the final attempt's response
    resJson      \* var resJson (artworkJson, ugoiraJson) after SendRequest returned nil

nestVars == <<tree, npc, nested>>
VARIABLES
    \* the tag searches of PixivDownloadProcess
    mobileClient, \* pixivDlOptions.MobileClient != nil
    tagErrs,     \* the hasErr each tagSearch of the run returns, by position in TagNames
    tagIdx,      \* tags searched so far
    hasErr,      \* hasErr
    stopped      \* progress.Stop was called: "no" (not yet), "ok", "err"

VARIABLES
    \* the config file of the application and the calls that use it
    config,      \* config.json under APP_PATH
    existing,    \* the paths that exist
    lastOp,      \* the call that returned last: "none", "set", "get"
    setPath,     \* newDownloadPath of the last SetDefaultDownloadPath
    setRet,      \* what it returned: "none" (not called), "nil", "err"
    cfgBefore,   \* config.json when it was called
    getRet       \* what the last GetDefaultDownloadPath returned

decVars == <<resBody, resJson>>
tagVars == <<mobileClient, tagErrs, tagIdx, hasErr, stopped>>
cfgVars == <<config, existing, lastOp, setPath, setRet, cfgBefore, getRet>>
auxVars == <<logVars, nestVars, decVars, tagVars, cfgVars>>
extVars == <<seqVars, retVars, gdVars, dlVars, auxVars>>
vars == <<tokVars, callVars, poolVars, lstVars, extVars>>

NoOauth == [tok |-> NoToken, ttl |-> 0]

Last(s) == s[Len(s)]

(***************************************************************************)
(* Pure parts of the code                                                  *)
(***************************************************************************)
\* RefreshTokenIfReq: accessToken != "" && expiresAt.After(time.Now())
TokenValid(tok, exp, t) == tok # NoToken /\ exp > t

\* RefreshAccessToken: time.Now().Add((ExpiresIn - 15) * time.Second)
NewExpiry(t, ttl) == t + (ttl - TokenMargin)

\* GetHeaders(additional...): the Authorization entry; entries of
\* `additional` overwrite the ones GetHeaders builds from the stored token
GetHeaders(tok, additional) == IF additional # NoAuth THEN additional ELSE tok

\* for i := 1; i <= utils.RETRY_COUNTER; i++
LoopCondShort(n) == n < RETRY_COUNTER
LoopCondLong(n) == n <= RETRY_COUNTER + 1
LoopCond(n) == n <= RETRY_COUNTER

\* Decide without the status check of lines 214-218
DecideNoStatusCheck(n, r, refr, chk) ==
    IF r.kind = "err" THEN "sleep"
    ELSE IF ~r.decodable /\ n = RETRY_COUNTER THEN "returnDecodeErr"
    ELSE IF refr THEN "continue"
    ELSE "returnNil"

\* Decide without the return of the decode error on the last attempt
DecideNoDecodeReturn(n, r, refr, chk) ==
    IF r.kind = "err" THEN "sleep"
    ELSE IF refr THEN "continue"
    ELSE IF ~chk THEN "returnNil"
    ELSE IF r.status = 200 THEN "returnNil"
    ELSE "sleep"

\* body of the retry loop after client.Do returned: what the loop does with
\* the answer r of attempt n
Decide(n, r, refr, chk) ==
    IF r.kind = "err" THEN "sleep"
    ELSE IF ~r.decodable /\ n = RETRY_COUNTER THEN "returnDecodeErr"
    ELSE IF refr THEN "continue"
    ELSE IF ~chk THEN "returnNil"
    ELSE IF r.status = 200 THEN "returnNil"
    ELSE "sleep"

(***************************************************************************)
(* Pure parts of the worker pools                                          *)
(***************************************************************************)
Jobs == 1..MaxJobs
PoolResponses == {NetErr, Res(200, TRUE), Res(404, TRUE)}
NoRes == NoCause

\* a queue with one slot per job
QueueCapPerJob(n) == n

\* maxConcurrency := utils.MAX_API_CALLS; if len < maxConcurrency { maxConcurrency = len }
QueueCap(n) == IF n < MAX_API_CALLS THEN n ELSE MAX_API_CALLS

\* channels without a buffer
ChanCapUnbuffered(n) == 0

\* resChan := make(chan *http.Response, postIdsLen), errChan likewise
ChanCap(n) == n

\* Outcome that drops the answers with a status other than 200
OutcomeDropsStatus(f, r) ==
    IF r.kind = "err" THEN (IF f = "getPostDetails" THEN "errChan" ELSE "log")
    ELSE IF r.status # 200 THEN "log"
    ELSE "resChan"

\* where a goroutine puts the outcome of its request:
\*   getPostDetails: if err != nil { errChan <- ... } else if res.StatusCode != 200
\*                   { errChan <- ... } else { resChan <- res }
\*   getFanboxPosts: if err != nil || res.StatusCode != 200 { utils.LogError(...) }
\*                   else { resChan <- res }
Outcome(f, r) ==
    IF r.kind = "err" \/ r.status # 200
       THEN (IF f = "getPostDetails" THEN "errChan" ELSE "log")
       ELSE "resChan"

(***************************************************************************)
(* Initial states                                                          *)
(***************************************************************************)
NoParams == [p |-> 0, offset |-> 0, type |-> "none"]

Files == 1..MaxFiles

\* no sequential batch has produced anything
SeqIdle == ugoiraSlice = <<>> /\ details = <<>> /\ dIdx = 0 /\ panicked = FALSE
\* no pool function has returned
RetIdle == postIds = {} /\ pret = Nil
\* GetFolderContents does not run
GdIdle == gpc = "idle" /\ pageToken = 0 /\ gReqs = <<>> /\ files = <<>> /\ gret = Nil
\* no download runs
DlIdle ==
    /\ dpc = [f \in Files |-> "idle"]
    /\ size = [f \in Files |-> 0]
    /\ tmp = [f \in Files |-> -1]
    /\ dest = [f \in Files |-> -1]
\* nobody logs
LogFns == {"LogError", "LogMessageToPath"}
NoArg == [err |-> FALSE, msg |-> FALSE]
LogIdle ==
    /\ logPc = [c \in Callers |-> "idle"]
    /\ logFn = [c \in Callers |-> "LogError"]
    /\ logArg = [c \in Callers |-> NoArg]
    /\ logMut = 0 /\ logToPathMutex = 0
    /\ opened = [c \in Callers |-> FALSE]
    /\ written = [f \in LogFns |-> <<>>]
\* result and error of a GDrive function
GdResult(fs, e) == [files |-> fs, err |-> e]
Nodes == 1..MaxNodes
NoTree == [parent |-> [n \in Nodes |-> 0], folder |-> [n \in Nodes |-> FALSE], failing |-> {}]
NestIdle == tree = NoTree /\ npc = "idle" /\ nested = GdResult(<<>>, FALSE)
\* what a body of the mobile API tells the loops: a next_url, an artwork of
\* type ugoira
Bodies == [next : BOOLEAN, ugoira : BOOLEAN]
\* var resJson models.PixivMobileArtworksJson: the zero value
ZeroJson == [next |-> FALSE, ugoira |-> FALSE]
DecIdle == resBody = ZeroJson /\ resJson = ZeroJson
TagIdle == mobileClient = FALSE /\ tagErrs = <<>> /\ tagIdx = 0 /\ hasErr = FALSE /\ stopped = "no"
\* a path: a directory name, or the empty string
NoPath == 0
\* the file config.json: absent, unreadable, not the JSON of a ConfigFile, or
\* a JSON object, with its three keys and whether it has more
CfgFile(k, d, l, m, x) ==
    [kind |-> k, download_directory |-> d, language |-> l, client_digest_method |-> m,
     extra |-> x]
NoConfigFile == CfgFile("absent", NoPath, "", "", FALSE)
CfgIdle ==
    /\ config = NoConfigFile /\ existing = {} /\ lastOp = "none" /\ setPath = NoPath
    /\ setRet = "none" /\ cfgBefore = NoConfigFile /\ getRet = NoPath
AuxIdle == LogIdle /\ NestIdle /\ DecIdle /\ TagIdle /\ CfgIdle
ExtIdle == SeqIdle /\ RetIdle /\ GdIdle /\ DlIdle /\ AuxIdle

\* no caller runs SendRequest, no token
TokIdle ==
    /\ accessToken = NoToken /\ expiresAt = 0 /\ accessTokenMu = 0 /\ now = 0
    /\ exchanges = 0 /\ transport = Responses
    /\ pc = [c \in Callers |-> "idle"]
    /\ checkStatus = [c \in Callers |-> TRUE]
    /\ withHeaders = [c \in Callers |-> TRUE]
    /\ hdrs = [c \in Callers |-> NoAuth]
    /\ refreshed = [c \in Callers |-> FALSE]
    /\ oauth = [c \in Callers |-> NoOauth]
    /\ reqAuth = [c \in Callers |-> NoAuth]
    /\ i = [c \in Callers |-> 0]
    /\ hist = [c \in Callers |-> <<>>]
    /\ sentWith = [c \in Callers |-> NoToken]
    /\ ret = [c \in Callers |-> Nil]

\* no listing loop and no batch runs
ListIdle ==
    /\ lfn = "none" /\ lpc = "idle"
    /\ artworkType = "none"
    /\ page = 0
    /\ minOffset = 0 /\ maxOffset = 0 /\ curOffset = 0
    /\ params = NoParams
    /\ nextUrl = FALSE
    /\ artworkIds = <<>> /\ errSlice = <<>> /\ reqLog = <<>>
    /\ nIds = 0 /\ bIdx = 0
    /\ ugoiras = FALSE /\ ugLeft = 0
    /\ sleeps = 0 /\ calls = 0
    /\ lret = Nil

\* no pool runs
PoolRest ==
    /\ fn = "none"
    /\ njobs = 0
    /\ mainPc = "idle"
    /\ idx = 1
    /\ queue = 0 /\ queueClosed = FALSE
    /\ wg = 0
    /\ resChan = <<>> /\ errChan = <<>> /\ chansClosed = FALSE
    /\ logged = <<>>
    /\ worker = [j \in Jobs |-> "none"]
    /\ wres = [j \in Jobs |-> NoRes]
    /\ crashed = FALSE

PoolIdle ==
    /\ fn = "none"
    /\ njobs = 0
    /\ minPage = 1 /\ maxPage = 1 /\ hasMax = FALSE
    /\ mainPc = "idle"
    /\ idx = 1
    /\ queue = 0 /\ queueClosed = FALSE
    /\ wg = 0
    /\ resChan = <<>> /\ errChan = <<>> /\ chansClosed = FALSE
    /\ logged = <<>>
    /\ worker = [j \in Jobs |-> "none"]
    /\ wres = [j \in Jobs |-> NoRes]
    /\ crashed = FALSE

\* the credential before the calls: unset, expired, valid for one tick,
\* valid for the whole run
InitCredentials == {<<NoToken, 0>>, <<OldToken, 0>>, <<OldToken, 1>>, <<OldToken, MaxTime + 1>>}

InitCommon ==
    /\ ExtIdle
    /\ \E cred \in InitCredentials : accessToken = cred[1] /\ expiresAt = cred[2]
    /\ accessTokenMu = 0
    /\ now = 0
    /\ exchanges = 0
    /\ hdrs = [c \in Callers |-> NoAuth]
    /\ refreshed = [c \in Callers |-> FALSE]
    /\ oauth = [c \in Callers |-> NoOauth]
    /\ reqAuth = [c \in Callers |-> NoAuth]
    /\ i = [c \in Callers |-> 0]
    /\ hist = [c \in Callers |-> <<>>]
    /\ sentWith = [c \in Callers |-> NoToken]
    /\ ret = [c \in Callers |-> Nil]

\* one caller: the sequential use the repository makes of SendRequest
Init ==
    /\ InitCommon
    /\ PoolIdle
    /\ ListIdle
    /\ transport = Responses
    /\ pc = [c \in Callers |-> IF c = 1 THEN "args" ELSE "idle"]
    /\ \E b \in BOOLEAN : checkStatus = [c \in Callers |-> b]
    /\ \E b \in BOOLEAN : withHeaders = [c \in Callers |-> b]

\* NCallers goroutines call SendRequest concurrently
InitConc ==
    /\ InitCommon
    /\ PoolIdle
    /\ ListIdle
    /\ transport = {Ok200}
    /\ pc = [c \in Callers |-> "args"]
    /\ checkStatus = [c \in Callers |-> TRUE]
    /\ \E b \in BOOLEAN : withHeaders = [c \in Callers |-> b]

(***************************************************************************)
(* The caller (GetArtworkDetails, GetIllustratorPosts, tagSearch,          *)
(* GetUgoiraMetadata) builds reqArgs: Headers: pixiv.GetHeaders()          *)
(***************************************************************************)
BuildArgs(c) ==
    /\ pc[c] = "args"
    /\ hdrs' = [hdrs EXCEPT ![c] = IF withHeaders[c] THEN GetHeaders(accessToken, NoAuth) ELSE NoAuth]
    /\ pc' = [pc EXCEPT ![c] = "check"]
    /\ UNCHANGED <<tokVars, checkStatus, withHeaders, refreshed, oauth, reqAuth, i, hist, sentWith, ret>>
    /\ UNCHANGED <<poolVars, lstVars, extVars>>

(***************************************************************************)
(* RefreshTokenIfReq: the two reads of the condition, without the mutex    *)
(***************************************************************************)
CheckToken(c) ==
    /\ pc[c] = "check"
    /\ pc' = [pc EXCEPT ![c] = IF accessToken # NoToken THEN "checkExp" ELSE "lock"]
    /\ UNCHANGED <<tokVars, checkStatus, withHeaders, hdrs, refreshed, oauth, reqAuth, i, hist, sentWith, ret>>
    /\ UNCHANGED <<poolVars, lstVars, extVars>>

\* CheckExpiry that takes a token expiring at this very instant as valid
CheckExpiryInclusive(c) ==
    /\ pc[c] = "checkExp"
    /\ IF expiresAt >= now
          THEN pc' = [pc EXCEPT ![c] = "headers"] /\ refreshed' = [refreshed EXCEPT ![c] = FALSE]
          ELSE pc' = [pc EXCEPT ![c] = "lock"] /\ UNCHANGED refreshed
    /\ UNCHANGED <<tokVars, checkStatus, withHeaders, hdrs, oauth, reqAuth, i, hist, sentWith, ret>>
    /\ UNCHANGED <<poolVars, lstVars, extVars>>

CheckExpiry(c) ==
    /\ pc[c] = "checkExp"
    /\ IF expiresAt > now
          THEN pc' = [pc EXCEPT ![c] = "headers"] /\ refreshed' = [refreshed EXCEPT ![c] = FALSE]
          ELSE pc' = [pc EXCEPT ![c] = "lock"] /\ UNCHANGED refreshed
    /\ UNCHANGED <<tokVars, checkStatus, withHeaders, hdrs, oauth, reqAuth, i, hist, sentWith, ret>>
    /\ UNCHANGED <<poolVars, lstVars, extVars>>

(***************************************************************************)
(* RefreshAccessToken                                                      *)
(***************************************************************************)
Lock(c) ==
    /\ pc[c] = "lock"
    /\ accessTokenMu = 0
    /\ accessTokenMu' = c
    /\ pc' = [pc EXCEPT ![c] = "exchange"]
    /\ UNCHANGED <<accessToken, expiresAt, now, exchanges, transport, checkStatus, withHeaders, hdrs, refreshed, oauth, reqAuth, i, hist, sentWith, ret>>
    /\ UNCHANGED <<poolVars, lstVars, extVars>>

\* request.CallRequestWithData answered 200 with a decodable body
ExchangeOk(c) ==
    /\ pc[c] = "exchange"
    /\ exchanges' = exchanges + 1
    /\ \E ttl \in TTLs : oauth' = [oauth EXCEPT ![c] = [tok |-> OldToken + exchanges', ttl |-> ttl]]
    /\ pc' = [pc EXCEPT ![c] = "storeToken"]
    /\ UNCHANGED <<accessToken, expiresAt, accessTokenMu, now, transport, checkStatus, withHeaders, hdrs, refreshed, reqAuth, i, hist, sentWith, ret>>
    /\ UNCHANGED <<poolVars, lstVars, extVars>>

\* ExchangeFail with a SendRequest that ignores the error of RefreshTokenIfReq
ExchangeFailIgnored(c) ==
    /\ pc[c] = "exchange"
    /\ exchanges' = exchanges + 1
    /\ accessTokenMu' = 0
    /\ refreshed' = [refreshed EXCEPT ![c] = TRUE]
    /\ pc' = [pc EXCEPT ![c] = "headers"]
    /\ UNCHANGED <<accessToken, expiresAt, now, transport, checkStatus, withHeaders, hdrs, oauth, reqAuth, i, hist, sentWith, ret>>
    /\ UNCHANGED <<poolVars, lstVars, extVars>>

\* the exchange failed: transport error, non-200 answer or undecodable body;
\* RefreshAccessToken returns the error (the deferred Unlock runs),
\* RefreshTokenIfReq returns (true, err) and SendRequest returns err
ExchangeFail(c) ==
    /\ pc[c] = "exchange"
    /\ exchanges' = exchanges + 1
    /\ \E e \in RefreshErrors : ret' = [ret EXCEPT ![c] = e]
    /\ accessTokenMu' = 0
    /\ refreshed' = [refreshed EXCEPT ![c] = TRUE]
    /\ pc' = [pc EXCEPT ![c] = "done"]
    /\ UNCHANGED <<accessToken, expiresAt, now, transport, checkStatus, withHeaders, hdrs, oauth, reqAuth, i, hist, sentWith>>
    /\ UNCHANGED <<poolVars, lstVars, extVars>>

\* pixiv.accessTokenMap.accessToken = oauthJson.AccessToken
StoreToken(c) ==
    /\ pc[c] = "storeToken"
    /\ accessToken' = oauth[c].tok
    /\ pc' = [pc EXCEPT ![c] = "storeExpiry"]
    /\ UNCHANGED <<expiresAt, accessTokenMu, now, exchanges, transport, checkStatus, withHeaders, hdrs, refreshed, oauth, reqAuth, i, hist, sentWith, ret>>
    /\ UNCHANGED <<poolVars, lstVars, extVars>>

\* pixiv.accessTokenMap.expiresAt = ...; return nil (deferred Unlock);
\* RefreshTokenIfReq returns (true, nil)
StoreExpiry(c) ==
    /\ pc[c] = "storeExpiry"
    /\ expiresAt' = NewExpiry(now, oauth[c].ttl)
    /\ accessTokenMu' = 0
    /\ refreshed' = [refreshed EXCEPT ![c] = TRUE]
    /\ pc' = [pc EXCEPT ![c] = "headers"]
    /\ UNCHANGED <<accessToken, now, exchanges, transport, checkStatus, withHeaders, hdrs, oauth, reqAuth, i, hist, sentWith, ret>>
    /\ UNCHANGED <<poolVars, lstVars, extVars>>

(***************************************************************************)
(* SendRequest after RefreshTokenIfReq                                     *)
(***************************************************************************)
\* for k, v := range pixiv.GetHeaders(reqArgs.Headers) { req.Header.Set(k, v) }
SetHeaders(c) ==
    /\ pc[c] = "headers"
    /\ reqAuth' = [reqAuth EXCEPT ![c] = GetHeaders(accessToken, hdrs[c])]
    /\ i' = [i EXCEPT ![c] = 1]
    /\ pc' = [pc EXCEPT ![c] = "loop"]
    /\ UNCHANGED <<tokVars, checkStatus, withHeaders, hdrs, refreshed, oauth, hist, sentWith, ret>>
    /\ UNCHANGED <<poolVars, lstVars, extVars>>

\* res, err = client.Do(req): the request leaves
Do(c) ==
    /\ pc[c] = "loop"
    /\ LoopCond(i[c])
    /\ \E r \in transport : hist' = [hist EXCEPT ![c] = Append(@, r)]
    /\ sentWith' = [sentWith EXCEPT ![c] = accessToken]
    /\ pc' = [pc EXCEPT ![c] = "inFlight"]
    /\ UNCHANGED <<tokVars, checkStatus, withHeaders, hdrs, refreshed, oauth, reqAuth, i, ret>>
    /\ UNCHANGED <<poolVars, lstVars, extVars>>

\* client.Do returned: the rest of the loop body
Answer(c) ==
    /\ pc[c] = "inFlight"
    /\ LET d == Decide(i[c], Last(hist[c]), refreshed[c], checkStatus[c])
       IN  CASE d = "returnNil" ->
                  /\ ret' = [ret EXCEPT ![c] = Nil]
                  /\ pc' = [pc EXCEPT ![c] = "done"]
                  /\ UNCHANGED i
             [] d = "returnDecodeErr" ->
                  /\ ret' = [ret EXCEPT ![c] = DecodeErr]
                  /\ pc' = [pc EXCEPT ![c] = "done"]
                  /\ UNCHANGED i
             [] OTHER ->
                  \* continue, or time.Sleep(utils.GetRandomDelay()); then i++
                  /\ i' = [i EXCEPT ![c] = @ + 1]
                  /\ pc' = [pc EXCEPT ![c] = "loop"]
                  /\ UNCHANGED ret
    /\ UNCHANGED <<tokVars, checkStatus, withHeaders, hdrs, refreshed, oauth, reqAuth, hist, sentWith>>
    /\ UNCHANGED <<poolVars, lstVars, extVars>>

\* the loop ran out: err = fmt.Errorf("request to %s failed after %d retries", ...)
Exhausted(c) ==
    /\ pc[c] = "loop"
    /\ ~LoopCond(i[c])
    /\ ret' = [ret EXCEPT ![c] = ExhaustedErr]
    /\ pc' = [pc EXCEPT ![c] = "done"]
    /\ UNCHANGED <<tokVars, checkStatus, withHeaders, hdrs, refreshed, oauth, reqAuth, i, hist, sentWith>>
    /\ UNCHANGED <<poolVars, lstVars, extVars>>

\* the wall clock advances
Tick ==
    /\ now < MaxTime
    /\ now' = now + 1
    /\ UNCHANGED <<accessToken, expiresAt, accessTokenMu, exchanges, transport, callVars>>
    /\ UNCHANGED <<poolVars, lstVars, extVars>>

CallerStep(c) ==
    \/ BuildArgs(c)
    \/ CheckToken(c)
    \/ CheckExpiry(c)
    \/ Lock(c)
    \/ ExchangeOk(c)
    \/ ExchangeFail(c)
    \/ StoreToken(c)
    \/ StoreExpiry(c)
    \/ SetHeaders(c)
    \/ Do(c)
    \/ Answer(c)
    \/ Exhausted(c)

Next ==
    \/ \E c \in Callers : CallerStep(c)
    \/ Tick

Spec == Init /\ [][Next]_vars

SpecConc == InitConc /\ [][Next]_vars

\* every goroutine that can take a step eventually takes one
SpecLive == Init /\ [][Next]_vars /\ \A c \in Callers : WF_vars(CallerStep(c))

(***************************************************************************)
(* The worker pools: getPostDetails (postIds) and getFanboxPosts           *)
(* (paginatedUrls, restricted to the page range)                           *)
(***************************************************************************)
InitPool ==
    /\ accessToken = NoToken /\ expiresAt = 0 /\ accessTokenMu = 0 /\ now = 0
    /\ exchanges = 0 /\ transport = Responses
    /\ pc = [c \in Callers |-> "idle"]
    /\ checkStatus = [c \in Callers |-> TRUE]
    /\ withHeaders = [c \in Callers |-> TRUE]
    /\ hdrs = [c \in Callers |-> NoAuth]
    /\ refreshed = [c \in Callers |-> FALSE]
    /\ oauth = [c \in Callers |-> NoOauth]
    /\ reqAuth = [c \in Callers |-> NoAuth]
    /\ i = [c \in Callers |-> 0]
    /\ hist = [c \in Callers |-> <<>>]
    /\ sentWith = [c \in Callers |-> NoToken]
    /\ ret = [c \in Callers |-> Nil]
    /\ njobs \in 0..MaxJobs
    /\ \/ fn = "getPostDetails" /\ minPage = 1 /\ maxPage = 1 /\ hasMax = FALSE
       \/ /\ fn = "getFanboxPosts"
          /\ minPage \in Jobs
          /\ \/ hasMax = FALSE /\ maxPage = minPage
             \/ hasMax = TRUE /\ maxPage \in Jobs
    /\ mainPc = "loop"
    /\ idx = 1
    /\ queue = 0 /\ queueClosed = FALSE
    /\ wg = 0
    /\ resChan = <<>> /\ errChan = <<>> /\ chansClosed = FALSE
    /\ logged = <<>>
    /\ worker = [j \in Jobs |-> "none"]
    /\ wres = [j \in Jobs |-> NoRes]
    /\ crashed = FALSE
    /\ ListIdle
    /\ ExtIdle

\* getFanboxPosts: if curPage < minPage { continue }
BelowRange(p) == fn = "getFanboxPosts" /\ p < minPage
\* getFanboxPosts: if hasMax && curPage > maxPage { break }
AboveRange(p) == fn = "getFanboxPosts" /\ ~BelowRange(p) /\ hasMax /\ p > maxPage

\* the jobs the range loop starts a goroutine for
Submitted == {p \in 1..njobs : ~BelowRange(p) /\ \A q \in 1..p : ~AboveRange(q)}

\* if curPage < minPage { continue }
SkipPage ==
    /\ ~crashed /\ mainPc = "loop" /\ idx <= njobs
    /\ BelowRange(idx)
    /\ idx' = idx + 1
    /\ UNCHANGED <<fn, njobs, minPage, maxPage, hasMax, mainPc, queue, queueClosed, wg,
                   resChan, errChan, chansClosed, logged, worker, wres, crashed>>
    /\ UNCHANGED <<tokVars, callVars, lstVars, extVars>>

\* wg.Add(1)
WgAdd ==
    /\ ~crashed /\ mainPc = "loop" /\ idx <= njobs
    /\ ~BelowRange(idx) /\ ~AboveRange(idx)
    /\ wg' = wg + 1
    /\ mainPc' = "acquire"
    /\ UNCHANGED <<fn, njobs, minPage, maxPage, hasMax, idx, queue, queueClosed,
                   resChan, errChan, chansClosed, logged, worker, wres, crashed>>
    /\ UNCHANGED <<tokVars, callVars, lstVars, extVars>>

\* queue <- struct{}{} (blocks while the queue is full); go func(...) {...}(...)
Acquire ==
    /\ ~crashed /\ mainPc = "acquire"
    /\ queue < QueueCap(njobs)
    /\ queue' = queue + 1
    /\ worker' = [worker EXCEPT ![idx] = "request"]
    /\ idx' = idx + 1
    /\ mainPc' = "loop"
    /\ UNCHANGED <<fn, njobs, minPage, maxPage, hasMax, queueClosed, wg,
                   resChan, errChan, chansClosed, logged, wres, crashed>>
    /\ UNCHANGED <<tokVars, callVars, lstVars, extVars>>

\* the range loop ended (or break); close(queue)
CloseQueue ==
    /\ ~crashed /\ mainPc = "loop"
    /\ idx > njobs \/ AboveRange(idx)
    /\ queueClosed' = TRUE
    /\ mainPc' = "wait"
    /\ UNCHANGED <<fn, njobs, minPage, maxPage, hasMax, idx, queue, wg,
                   resChan, errChan, chansClosed, logged, worker, wres, crashed>>
    /\ UNCHANGED <<tokVars, callVars, lstVars, extVars>>

\* Wait that does not wait for the goroutines
WaitEarly ==
    /\ ~crashed /\ mainPc = "wait"
    /\ mainPc' = "closeChans"
    /\ UNCHANGED <<fn, njobs, minPage, maxPage, hasMax, idx, queue, queueClosed, wg,
                   resChan, errChan, chansClosed, logged, worker, wres, crashed>>
    /\ UNCHANGED <<tokVars, callVars, lstVars, extVars>>

\* wg.Wait() returns
Wait ==
    /\ ~crashed /\ mainPc = "wait"
    /\ wg = 0
    /\ mainPc' = "closeChans"
    /\ UNCHANGED <<fn, njobs, minPage, maxPage, hasMax, idx, queue, queueClosed, wg,
                   resChan, errChan, chansClosed, logged, worker, wres, crashed>>
    /\ UNCHANGED <<tokVars, callVars, lstVars, extVars>>

\* close(resChan); close(errChan); the outcomes are then read
CloseChans ==
    /\ ~crashed /\ mainPc = "closeChans"
    /\ chansClosed' = TRUE
    /\ mainPc' = "parse"
    /\ UNCHANGED <<fn, njobs, minPage, maxPage, hasMax, idx, queue, queueClosed, wg,
                   resChan, errChan, logged, worker, wres, crashed>>
    /\ UNCHANGED <<tokVars, callVars, lstVars, extVars>>

\* the answers whose body is parsed into results
Parsed(ch) == {ch[k].job : k \in {n \in 1..Len(ch) : ch[n].res.decodable}}

\* the errors are logged (utils.LogErrors), the answers in resChan are parsed
\* and the function returns: getPostDetails the urls, getFanboxPosts
\* postIds, nil
PoolReturn ==
    /\ ~crashed /\ mainPc = "parse"
    /\ postIds' = Parsed(resChan)
    /\ pret' = Nil
    /\ mainPc' = "returned"
    /\ UNCHANGED poolVarsButPc
    /\ UNCHANGED <<tokVars, callVars, lstVars, seqVars, gdVars, dlVars, auxVars>>

\* request.CallRequest returns in the goroutine of job j
Request(j) ==
    /\ ~crashed /\ worker[j] = "request"
    /\ \E r \in PoolResponses : wres' = [wres EXCEPT ![j] = r]
    /\ worker' = [worker EXCEPT ![j] = "deliver"]
    /\ UNCHANGED <<fn, njobs, minPage, maxPage, hasMax, mainPc, idx, queue, queueClosed, wg,
                   resChan, errChan, chansClosed, logged, crashed>>
    /\ UNCHANGED <<tokVars, callVars, lstVars, extVars>>

NoJob == 0

\* the post or page an outcome names: a response is the answer to the request
\* of its job and the message logged by getFanboxPosts holds reqUrl; the
\* errors of getPostDetails hold url, the same for every post, and either
\* res.Status or the error of request.CallRequest, which may name the request
Carried(f, r, j) ==
    IF f = "getPostDetails" /\ r.kind = "err" THEN {j, NoJob}
    ELSE IF f = "getPostDetails" /\ r.status # 200 THEN {NoJob}
    ELSE {j}

\* the goroutine sends its outcome (a send on a closed channel panics; the
\* channels have room for every job, a send on a full channel would block)
Deliver(j) ==
    /\ ~crashed /\ worker[j] = "deliver"
    /\ \E id \in Carried(fn, wres[j], j) :
       LET o == Outcome(fn, wres[j])
           e == [job |-> j, res |-> wres[j], id |-> id]
       IN  CASE o = "resChan" ->
                  /\ Len(resChan) < ChanCap(njobs)
                  /\ IF chansClosed
                        THEN crashed' = TRUE /\ UNCHANGED resChan
                        ELSE resChan' = Append(resChan, e) /\ UNCHANGED crashed
                  /\ UNCHANGED <<errChan, logged>>
             [] o = "errChan" ->
                  /\ Len(errChan) < ChanCap(njobs)
                  /\ IF chansClosed
                        THEN crashed' = TRUE /\ UNCHANGED errChan
                        ELSE errChan' = Append(errChan, e) /\ UNCHANGED crashed
                  /\ UNCHANGED <<resChan, logged>>
             [] OTHER ->
                  /\ logged' = Append(logged, e)
                  /\ UNCHANGED <<resChan, errChan, crashed>>
    /\ worker' = [worker EXCEPT ![j] = "release"]
    /\ UNCHANGED <<fn, njobs, minPage, maxPage, hasMax, mainPc, idx, queue, queueClosed, wg,
                   chansClosed, wres>>
    /\ UNCHANGED <<tokVars, callVars, lstVars, extVars>>

\* Release that skips <-queue after a failed request
ReleaseOnSuccessOnly(j) ==
    /\ ~crashed /\ worker[j] = "release"
    /\ queue > 0 \/ queueClosed
    /\ queue' = IF queue > 0 /\ Outcome(fn, wres[j]) = "resChan" THEN queue - 1 ELSE queue
    /\ worker' = [worker EXCEPT ![j] = "wgDone"]
    /\ UNCHANGED <<fn, njobs, minPage, maxPage, hasMax, mainPc, idx, queueClosed, wg,
                   resChan, errChan, chansClosed, logged, wres, crashed>>
    /\ UNCHANGED <<tokVars, callVars, lstVars, extVars>>

\* <-queue (a receive on a closed and empty channel returns at once)
Release(j) ==
    /\ ~crashed /\ worker[j] = "release"
    /\ queue > 0 \/ queueClosed
    /\ queue' = IF queue > 0 THEN queue - 1 ELSE 0
    /\ worker' = [worker EXCEPT ![j] = "wgDone"]
    /\ UNCHANGED <<fn, njobs, minPage, maxPage, hasMax, mainPc, idx, queueClosed, wg,
                   resChan, errChan, chansClosed, logged, wres, crashed>>
    /\ UNCHANGED <<tokVars, callVars, lstVars, extVars>>

\* wg.Done() (deferred)
WgDone(j) ==
    /\ ~crashed /\ worker[j] \in {"wgDone", "panicWgDone"}
    /\ wg' = wg - 1
    /\ worker' = [worker EXCEPT ![j] = IF worker[j] = "wgDone" THEN "finished" ELSE "panicked"]
    /\ UNCHANGED <<fn, njobs, minPage, maxPage, hasMax, mainPc, idx, queue, queueClosed,
                   resChan, errChan, chansClosed, logged, wres, crashed>>
    /\ UNCHANGED <<tokVars, callVars, lstVars, extVars>>

\* a panic inside the request of job j: the deferred calls of the goroutine
\* run (getPostDetails: <-queue and wg.Done(); getFanboxPosts: wg.Done()) ...
Panic(j) ==
    /\ ~crashed /\ worker[j] = "request"
    /\ worker' = [worker EXCEPT ![j] = IF fn = "getPostDetails" THEN "panicRelease" ELSE "panicWgDone"]
    /\ UNCHANGED <<fn, njobs, minPage, maxPage, hasMax, mainPc, idx, queue, queueClosed, wg,
                   resChan, errChan, chansClosed, logged, wres, crashed>>
    /\ UNCHANGED <<tokVars, callVars, lstVars, extVars>>

PanicRelease(j) ==
    /\ ~crashed /\ worker[j] = "panicRelease"
    /\ queue > 0 \/ queueClosed
    /\ queue' = IF queue > 0 THEN queue - 1 ELSE 0
    /\ worker' = [worker EXCEPT ![j] = "panicWgDone"]
    /\ UNCHANGED <<fn, njobs, minPage, maxPage, hasMax, mainPc, idx, queueClosed, wg,
                   resChan, errChan, chansClosed, logged, wres, crashed>>
    /\ UNCHANGED <<tokVars, callVars, lstVars, extVars>>

\* ... and, no deferred call recovering it, the panic ends the process
Crash(j) ==
    /\ ~crashed /\ worker[j] = "panicked"
    /\ crashed' = TRUE
    /\ UNCHANGED <<fn, njobs, minPage, maxPage, hasMax, mainPc, idx, queue, queueClosed, wg,
                   resChan, errChan, chansClosed, logged, worker, wres>>
    /\ UNCHANGED <<tokVars, callVars, lstVars, extVars>>

MainStep == SkipPage \/ WgAdd \/ Acquire \/ CloseQueue \/ Wait \/ CloseChans \/ PoolReturn

WorkerStep(j) == Request(j) \/ Deliver(j) \/ Release(j) \/ WgDone(j)

PanicStep(j) == Panic(j) \/ PanicRelease(j) \/ Crash(j)

NextPool ==
    \/ MainStep
    \/ \E j \in Jobs : WorkerStep(j)

NextPoolPanic ==
    \/ NextPool
    \/ \E j \in Jobs : PanicStep(j)

\* every request returns
SpecPool == InitPool /\ [][NextPool]_vars

\* every request returns, and the submitter and every goroutine that can take
\* a step eventually take one
SpecPoolLive ==
    /\ InitPool /\ [][NextPool]_vars
    /\ WF_vars(MainStep)
    /\ \A j \in Jobs : WF_vars(WorkerStep(j))

\* a request may panic
SpecPoolPanic == InitPool /\ [][NextPoolPanic]_vars

(***************************************************************************)
(* Page ranges: the results of utils.GetMinMaxFromStr(pageNum) and of      *)
(* ConvertPageNumToOffset                                                  *)
(***************************************************************************)
\* minPage, maxPage, hasMax of a page range (maxPage is optional; both ends
\* are page numbers from 1 on)
PageRanges == [min : 1..MaxPage, max : 1..MaxPage, hasMax : BOOLEAN]

\* the offset of the first entry of minPageNum and the offset behind the
\* last entry of maxPageNum
ConvertPageNumToOffset(minPageNum, maxPageNum, includeMax) ==
    <<(minPageNum - 1) * PerPage,
      maxPageNum * PerPage + (IF includeMax THEN PerPage ELSE 0)>>

\* the web listing loop is cut after this many requests (with no max page
\* it runs as long as the upstream delivers or fails)
WebMaxReqs == MaxPage + 1

(***************************************************************************)
(* tagSearch (web): for { page++ ... }                                     *)
(***************************************************************************)
\* the answers of request.CallRequest and ProcessTagJsonResults to one
\* listing request: transport error, undecodable body, or the number of ids
WebErr == [kind |-> "err", n |-> 0]
WebBad == [kind |-> "bad", n |-> 0]
Ids(n) == [kind |-> "ids", n |-> n]
WebAnswers == {WebErr, WebBad} \cup {Ids(n) : n \in 0..MaxEntities}
Pending == [kind |-> "pending", n |-> 0]

\* if page < minPage { continue }
WebBelowMin(p) == p < minPage

WebAboveMaxOffByOne(p) == hasMax /\ p >= maxPage
\* if hasMax && page > maxPage { break }
WebAboveMax(p) == hasMax /\ p > maxPage

EmptyPageIgnored(a) == FALSE
\* if len(tagArtworkIds) == 0 { break }
EmptyPage(a) == a.kind = "ids" /\ a.n = 0

\* the ids of one page, in the order of the answer
PageIds(p, n) == [k \in 1..n |-> <<p, k>>]

InitWeb ==
    /\ ExtIdle
    /\ accessToken = NoToken /\ expiresAt = 0 /\ accessTokenMu = 0 /\ now = 0
    /\ exchanges = 0 /\ transport = Responses
    /\ pc = [c \in Callers |-> "idle"]
    /\ checkStatus = [c \in Callers |-> TRUE]
    /\ withHeaders = [c \in Callers |-> TRUE]
    /\ hdrs = [c \in Callers |-> NoAuth]
    /\ refreshed = [c \in Callers |-> FALSE]
    /\ oauth = [c \in Callers |-> NoOauth]
    /\ reqAuth = [c \in Callers |-> NoAuth]
    /\ i = [c \in Callers |-> 0]
    /\ hist = [c \in Callers |-> <<>>]
    /\ sentWith = [c \in Callers |-> NoToken]
    /\ ret = [c \in Callers |-> Nil]
    /\ PoolRest
    /\ \E r \in PageRanges : minPage = r.min /\ maxPage = r.max /\ hasMax = r.hasMax
    /\ lfn = "webTagSearch" /\ lpc = "loop"
    /\ artworkType = "none"
    /\ page = 0
    /\ minOffset = 0 /\ maxOffset = 0 /\ curOffset = 0
    /\ params = NoParams
    /\ nextUrl = FALSE
    /\ artworkIds = <<>> /\ errSlice = <<>> /\ reqLog = <<>>
    /\ nIds = 0 /\ bIdx = 0
    /\ ugoiras = FALSE /\ ugLeft = 0
    /\ sleeps = 0 /\ calls = 0
    /\ lret = Nil

\* hasErr of tagSearch, as the error the model records
HasErr(errs) == IF Len(errs) > 0 THEN [msg |-> "hasErr", count |-> Len(errs), cause |-> NoCause] ELSE Nil

\* page++; if page < minPage { continue }
WebSkip ==
    /\ lfn = "webTagSearch" /\ lpc = "loop"
    /\ WebBelowMin(page + 1)
    /\ page' = page + 1
    /\ UNCHANGED <<lfn, lpc, artworkType, minOffset, maxOffset, curOffset, params, nextUrl,
                   artworkIds, errSlice, reqLog, nIds, bIdx, ugoiras, ugLeft, sleeps, calls, lret>>
    /\ UNCHANGED <<tokVars, callVars, poolVars, extVars>>

\* page++; if hasMax && page > maxPage { break }; hasErr is computed
WebBreak ==
    /\ lfn = "webTagSearch" /\ lpc = "loop"
    /\ ~WebBelowMin(page + 1) /\ WebAboveMax(page + 1)
    /\ page' = page + 1
    /\ lret' = HasErr(errSlice)
    /\ lpc' = "done"
    /\ UNCHANGED <<lfn, artworkType, minOffset, maxOffset, curOffset, params, nextUrl,
                   artworkIds, errSlice, reqLog, nIds, bIdx, ugoiras, ugLeft, sleeps, calls>>
    /\ UNCHANGED <<tokVars, callVars, poolVars, extVars>>

\* page++; params["p"] = strconv.Itoa(page); request.CallRequest(...)
WebRequest ==
    /\ lfn = "webTagSearch" /\ lpc = "loop"
    /\ ~WebBelowMin(page + 1) /\ ~WebAboveMax(page + 1)
    /\ Len(reqLog) < WebMaxReqs
    /\ page' = page + 1
    /\ params' = [params EXCEPT !.p = page + 1]
    /\ reqLog' = Append(reqLog, [p |-> page + 1, ans |-> Pending])
    /\ lpc' = "answer"
    /\ UNCHANGED <<lfn, artworkType, minOffset, maxOffset, curOffset, nextUrl,
                   artworkIds, errSlice, nIds, bIdx, ugoiras, ugLeft, sleeps, calls, lret>>
    /\ UNCHANGED <<tokVars, callVars, poolVars, extVars>>

\* the request returned: an error or an undecodable body is appended to
\* errSlice (continue), an empty page ends the loop, the ids of any other
\* page are appended, followed by PixivSleep() unless page == maxPage
WebAnswer ==
    /\ lfn = "webTagSearch" /\ lpc = "answer"
    /\ \E a \in WebAnswers :
        /\ reqLog' = [reqLog EXCEPT ![Len(reqLog)].ans = a]
        /\ IF a \in {WebErr, WebBad}
           THEN /\ errSlice' = Append(errSlice, [p |-> page, err |-> a])
                /\ lpc' = "loop"
                /\ UNCHANGED <<artworkIds, sleeps, lret>>
           ELSE IF EmptyPage(a)
           THEN /\ lret' = HasErr(errSlice)
                /\ lpc' = "done"
                /\ UNCHANGED <<artworkIds, errSlice, sleeps>>
           ELSE /\ artworkIds' = artworkIds \o PageIds(page, a.n)
                /\ sleeps' = IF page # maxPage THEN sleeps + 1 ELSE sleeps
                /\ lpc' = "loop"
                /\ UNCHANGED <<errSlice, lret>>
    /\ UNCHANGED <<lfn, artworkType, page, minOffset, maxOffset, curOffset, params, nextUrl,
                   nIds, bIdx, ugoiras, ugLeft, calls>>
    /\ UNCHANGED <<tokVars, callVars, poolVars, extVars>>

NextWeb == WebSkip \/ WebBreak \/ WebRequest \/ WebAnswer

SpecWeb == InitWeb /\ [][NextWeb]_vars

\* the goroutine that runs tagSearch keeps running, and every request returns
SpecWebLive == InitWeb /\ [][NextWeb]_vars /\ WF_vars(NextWeb)

(***************************************************************************)
(* The mobile API: GetIllustratorPosts, tagSearch and                      *)
(* getMultipleArtworkDetails of PixivMobile, run by caller 1; every        *)
(* request is a call of SendRequest                                        *)
(***************************************************************************)
Listings == {"GetIllustratorPosts", "tagSearch"}
Batch == "getMultipleArtworkDetails"

\* the mobile listing loops are cut after this many requests
MobMaxReqs == 2 * MaxPage

\* hasMax && curOffset >= maxOffset
LastPage(off) == hasMax /\ off >= maxOffset

\* a SendRequest that decodes the body into the caller's target
TargetHoldsBody(body) == body
\* SendRequest: jsonFormat = nil; utils.LoadJsonFromResponse(res, &jsonFormat)
\* decodes into the local jsonFormat, whose pointer to the caller's target
\* was just overwritten: the target keeps its zero value
TargetAfterSendRequest(body) == ZeroJson

CheckUgoira == "CheckForUgoira"

\* if params["type"] == "illust" && artworkType == "all"
SecondPass == lfn = "GetIllustratorPosts" /\ params.type = "illust" /\ artworkType = "all"

InitMobile ==
    /\ InitCommon
    /\ transport = {Ok200, NetErr}
    /\ pc = [c \in Callers |-> "idle"]
    /\ checkStatus = [c \in Callers |-> TRUE]
    /\ withHeaders = [c \in Callers |-> TRUE]
    /\ PoolRest
    /\ page = 0
    /\ artworkIds = <<>> /\ errSlice = <<>> /\ reqLog = <<>>
    /\ bIdx = 0
    /\ ugoiras = FALSE
    /\ sleeps = 0 /\ calls = 0
    /\ lret = Nil
    /\ \/ /\ lfn = Batch
          /\ lpc = "loop"
          /\ ugLeft = 0
          /\ nIds \in 0..MaxIds
          /\ minPage = 1 /\ maxPage = 1 /\ hasMax = FALSE
          /\ artworkType = "none"
          /\ minOffset = 0 /\ maxOffset = 0 /\ curOffset = 0
          /\ params = NoParams
          /\ nextUrl = FALSE
       \/ /\ lfn = CheckUgoira
          /\ lpc = "ugoira"
          /\ ugLeft \in 1..MaxIds
          /\ nIds = 0
          /\ minPage = 1 /\ maxPage = 1 /\ hasMax = FALSE
          /\ artworkType = "none"
          /\ minOffset = 0 /\ maxOffset = 0 /\ curOffset = 0
          /\ params = NoParams
          /\ nextUrl = FALSE
       \/ /\ lfn \in Listings
          /\ lpc = "loop"
          /\ ugLeft = 0
          /\ nIds = 0
          /\ \E r \in PageRanges : minPage = r.min /\ maxPage = r.max /\ hasMax = r.hasMax
          /\ \/ lfn = "GetIllustratorPosts" /\ artworkType \in {"all", "illust"}
             \/ lfn = "tagSearch" /\ artworkType = "none"
          /\ minOffset = ConvertPageNumToOffset(minPage, maxPage, FALSE)[1]
          /\ maxOffset = ConvertPageNumToOffset(minPage, maxPage, FALSE)[2]
          /\ curOffset = minOffset
          /\ params = [p |-> 0, offset |-> minOffset,
                       type |-> IF artworkType = "all" THEN "illust" ELSE artworkType]
          /\ nextUrl = TRUE

\* caller 1 enters SendRequest
StartCall ==
    /\ pc' = [pc EXCEPT ![1] = "args"]
    /\ hdrs' = [hdrs EXCEPT ![1] = NoAuth]
    /\ refreshed' = [refreshed EXCEPT ![1] = FALSE]
    /\ oauth' = [oauth EXCEPT ![1] = NoOauth]
    /\ reqAuth' = [reqAuth EXCEPT ![1] = NoAuth]
    /\ i' = [i EXCEPT ![1] = 0]
    /\ hist' = [hist EXCEPT ![1] = <<>>]
    /\ sentWith' = [sentWith EXCEPT ![1] = NoToken]
    /\ ret' = [ret EXCEPT ![1] = Nil]
    /\ calls' = calls + 1
    /\ UNCHANGED <<tokVars, checkStatus, withHeaders, poolVars, extVars>>

\* for nextUrl != "" { err := pixiv.SendRequest(... Params: params ...)
MobRequest ==
    /\ lfn \in Listings /\ lpc = "loop"
    /\ nextUrl
    /\ Len(reqLog) < MobMaxReqs
    /\ reqLog' = Append(reqLog, [type |-> params.type, offset |-> params.offset, ans |-> "pending"])
    /\ StartCall
    /\ lpc' = "call"
    /\ UNCHANGED <<lfn, artworkType, page, minOffset, maxOffset, curOffset, params, nextUrl,
                   artworkIds, errSlice, nIds, bIdx, ugoiras, ugLeft, sleeps, lret>>

\* if err != nil { ...; return nil, nil, err }
MobFail ==
    /\ lfn \in Listings /\ lpc = "call"
    /\ pc[1] = "done" /\ ret[1] # Nil
    /\ reqLog' = [reqLog EXCEPT ![Len(reqLog)].ans = "err"]
    /\ lret' = ret[1]
    /\ lpc' = "done"
    /\ UNCHANGED <<lfn, artworkType, page, minOffset, maxOffset, curOffset, params, nextUrl,
                   artworkIds, errSlice, nIds, bIdx, ugoiras, ugLeft, sleeps, calls>>
    /\ UNCHANGED <<tokVars, callVars, poolVars, extVars>>

\* the page is appended; curOffset += 30; params["offset"] = curOffset;
\* nextUrl = "" without a next url or behind the last page, else
\* nextUrl = *jsonNextUrl; pixiv.Sleep()
MobPage ==
    /\ lfn \in Listings /\ lpc = "call"
    /\ pc[1] = "done" /\ ret[1] = Nil
    /\ \E body \in Bodies :
        /\ resBody' = body
        /\ resJson' = TargetAfterSendRequest(body)
        /\ reqLog' = [reqLog EXCEPT ![Len(reqLog)].ans = IF body.next THEN "next" ELSE "last"]
    /\ ugoiras' = (ugoiras \/ resJson'.ugoira)
    /\ curOffset' = curOffset + PerPage
    /\ params' = [params EXCEPT !.offset = curOffset + PerPage]
    /\ IF ~resJson'.next \/ LastPage(curOffset + PerPage)
       THEN nextUrl' = FALSE /\ UNCHANGED sleeps
       ELSE nextUrl' = TRUE /\ sleeps' = sleeps + 1
    /\ lpc' = "loop"
    /\ UNCHANGED <<lfn, artworkType, page, minOffset, maxOffset,
                   artworkIds, errSlice, nIds, bIdx, ugLeft, calls, lret>>
    /\ UNCHANGED <<tokVars, callVars, poolVars, seqVars, retVars, gdVars, dlVars, logVars, nestVars, tagVars, cfgVars>>

\* params["type"] = "manga"; nextUrl = baseUrl + "/v1/user/illusts";
\* goto startLoop; curOffset := minOffset
MobNextType ==
    /\ lfn \in Listings /\ lpc = "loop"
    /\ ~nextUrl /\ SecondPass
    /\ params' = [params EXCEPT !.type = "manga"]
    /\ nextUrl' = TRUE
    /\ curOffset' = minOffset
    /\ UNCHANGED <<lfn, lpc, artworkType, page, minOffset, maxOffset,
                   artworkIds, errSlice, reqLog, nIds, bIdx, ugoiras, ugLeft, sleeps, calls, lret>>
    /\ UNCHANGED <<tokVars, callVars, poolVars, extVars>>

\* the loops are over: pixiv.CheckForUgoira(artworksToDownload)
MobCheckForUgoira ==
    /\ lfn \in Listings /\ lpc = "loop"
    /\ ~nextUrl /\ ~SecondPass
    /\ ugLeft' = IF ugoiras THEN 1 ELSE 0
    /\ lpc' = "ugoira"
    /\ UNCHANGED <<lfn, artworkType, page, minOffset, maxOffset, curOffset, params, nextUrl,
                   artworkIds, errSlice, reqLog, nIds, bIdx, ugoiras, sleeps, calls, lret>>
    /\ UNCHANGED <<tokVars, callVars, poolVars, extVars>>

\* CheckForUgoira: pixiv.GetUgoiraMetadata(...) calls SendRequest
UgoiraRequest ==
    /\ lpc = "ugoira" /\ ugLeft > 0
    /\ StartCall
    /\ lpc' = "ugoiraCall"
    /\ UNCHANGED <<lfn, artworkType, page, minOffset, maxOffset, curOffset, params, nextUrl,
                   artworkIds, errSlice, reqLog, nIds, bIdx, ugoiras, ugLeft, sleeps, lret>>

\* GetUgoiraMetadata logs err and returns an Ugoira whatever err is, and
\* CheckForUgoira appends it to ugoiraSlice; if idx != lastIdx { pixiv.Sleep() }
UgoiraAnswer ==
    /\ lpc = "ugoiraCall"
    /\ pc[1] = "done"
    /\ ugLeft' = ugLeft - 1
    /\ sleeps' = IF ugLeft > 1 THEN sleeps + 1 ELSE sleeps
    /\ lpc' = "ugoira"
    /\ UNCHANGED <<lfn, artworkType, page, minOffset, maxOffset, curOffset, params, nextUrl,
                   artworkIds, errSlice, reqLog, nIds, bIdx, ugoiras, calls, lret>>
    /\ ugoiraSlice' = Append(ugoiraSlice, [job |-> bIdx, err |-> ret[1]])
    /\ UNCHANGED <<tokVars, callVars, poolVars, details, dIdx, panicked, retVars, gdVars, dlVars, auxVars>>

\* return artworksToDownload, ugoiraSlice, nil
MobReturn ==
    /\ lfn \in Listings /\ lpc = "ugoira" /\ ugLeft = 0
    /\ lret' = Nil
    /\ lpc' = "done"
    /\ UNCHANGED <<lfn, artworkType, page, minOffset, maxOffset, curOffset, params, nextUrl,
                   artworkIds, errSlice, reqLog, nIds, bIdx, ugoiras, ugLeft, sleeps, calls>>
    /\ UNCHANGED <<tokVars, callVars, poolVars, extVars>>

\* CheckForUgoira: return filteredArtworks, ugoiraSlice
UgoiraReturn ==
    /\ lfn = CheckUgoira /\ lpc = "ugoira" /\ ugLeft = 0
    /\ lpc' = "done"
    /\ UNCHANGED <<lfn, artworkType, page, minOffset, maxOffset, curOffset, params, nextUrl,
                   artworkIds, errSlice, reqLog, nIds, bIdx, ugoiras, ugLeft, sleeps, calls, lret>>
    /\ UNCHANGED <<tokVars, callVars, poolVars, extVars>>

\* for idx, artworkId := range artworkIds { pixiv.GetArtworkDetails(...)
BatchRequest ==
    /\ lfn = Batch /\ lpc = "loop"
    /\ bIdx < nIds
    /\ StartCall
    /\ lpc' = "call"
    /\ UNCHANGED <<lfn, artworkType, page, minOffset, maxOffset, curOffset, params, nextUrl,
                   artworkIds, errSlice, reqLog, nIds, bIdx, ugoiras, ugLeft, sleeps, lret>>

\* if err != nil { errSlice = append(errSlice, err); ...; continue }
BatchFail ==
    /\ lfn = Batch /\ lpc = "call"
    /\ pc[1] = "done" /\ ret[1] # Nil
    /\ errSlice' = Append(errSlice, [job |-> bIdx, err |-> ret[1]])
    /\ bIdx' = bIdx + 1
    /\ lpc' = "loop"
    /\ UNCHANGED <<lfn, artworkType, page, minOffset, maxOffset, curOffset, params, nextUrl,
                   artworkIds, reqLog, nIds, ugoiras, ugLeft, sleeps, calls, lret>>
    /\ UNCHANGED <<tokVars, callVars, poolVars, extVars>>

\* GetArtworkDetails: ProcessArtworkJson, then CheckForUgoira on the artwork
BatchDetails ==
    /\ lfn = Batch /\ lpc = "call"
    /\ pc[1] = "done" /\ ret[1] = Nil
    /\ \E body \in {b \in Bodies : ~b.next} :
        /\ resBody' = body
        /\ resJson' = TargetAfterSendRequest(body)
    /\ ugoiras' = (ugoiras \/ resJson'.ugoira)
    /\ ugLeft' = IF resJson'.ugoira THEN 1 ELSE 0
    /\ lpc' = "ugoira"
    /\ UNCHANGED <<lfn, artworkType, page, minOffset, maxOffset, curOffset, params, nextUrl,
                   artworkIds, errSlice, reqLog, nIds, bIdx, sleeps, calls, lret>>
    /\ UNCHANGED <<tokVars, callVars, poolVars, seqVars, retVars, gdVars, dlVars, logVars, nestVars, tagVars, cfgVars>>

\* GetArtworkDetails returned nil: the details are appended;
\* if idx != lastIdx { pixiv.Sleep() }
BatchNext ==
    /\ lfn = Batch /\ lpc = "ugoira" /\ ugLeft = 0
    /\ bIdx' = bIdx + 1
    /\ sleeps' = IF bIdx # nIds - 1 THEN sleeps + 1 ELSE sleeps
    /\ lpc' = "loop"
    /\ UNCHANGED <<lfn, artworkType, page, minOffset, maxOffset, curOffset, params, nextUrl,
                   artworkIds, errSlice, reqLog, nIds, ugoiras, ugLeft, calls, lret>>
    /\ details' = Append(details, bIdx)
    /\ UNCHANGED <<tokVars, callVars, poolVars, ugoiraSlice, dIdx, panicked, retVars, gdVars, dlVars, auxVars>>

\* the range loop is over: hasErr, utils.LogErrors, return
BatchFinish ==
    /\ lfn = Batch /\ lpc = "loop"
    /\ bIdx = nIds
    /\ lret' = HasErr(errSlice)
    /\ lpc' = "done"
    /\ UNCHANGED <<lfn, artworkType, page, minOffset, maxOffset, curOffset, params, nextUrl,
                   artworkIds, errSlice, reqLog, nIds, bIdx, ugoiras, ugLeft, sleeps, calls>>
    /\ UNCHANGED <<tokVars, callVars, poolVars, extVars>>

MobileStep ==
    \/ MobRequest
    \/ MobFail
    \/ MobPage
    \/ MobNextType
    \/ MobCheckForUgoira
    \/ UgoiraRequest
    \/ UgoiraAnswer
    \/ MobReturn
    \/ UgoiraReturn
    \/ BatchRequest
    \/ BatchFail
    \/ BatchDetails
    \/ BatchNext
    \/ BatchFinish

NextMobile ==
    \/ \E c \in Callers : CallerStep(c)
    \/ Tick
    \/ MobileStep

SpecMobile == InitMobile /\ [][NextMobile]_vars

(***************************************************************************)
(* The sequential batches of the web API: getMultipleIllustratorPosts,     *)
(* which ends with getMultipleArtworkDetails                               *)
(***************************************************************************)
WebBatch == "getMultipleIllustratorPosts"

\* what GetIllustratorPosts returns for one illustrator: an error (failed
\* request, non-200 answer, undecodable body) or the artwork ids
IllustratorAnswers == {WebErr} \cup {Ids(n) : n \in 0..MaxEntities}
\* what GetArtworkDetails returns for one artwork: an error or the details
DetailAnswers == {WebErr, Ids(1)}

\* lastArtworkId := artworkIds[artworkIdsLen-1] faults on an empty slice
LastIndexFaults(ids) == Len(ids) = 0

InitWebBatch ==
    /\ TokIdle
    /\ PoolRest
    /\ minPage = 1 /\ maxPage = 1 /\ hasMax = FALSE
    /\ ExtIdle
    /\ lfn = WebBatch /\ lpc = "loop"
    /\ artworkType = "none"
    /\ page = 0
    /\ minOffset = 0 /\ maxOffset = 0 /\ curOffset = 0
    /\ params = NoParams
    /\ nextUrl = FALSE
    /\ artworkIds = <<>> /\ errSlice = <<>> /\ reqLog = <<>>
    /\ nIds \in 0..MaxIds /\ bIdx = 0
    /\ ugoiras = FALSE /\ ugLeft = 0
    /\ sleeps = 0 /\ calls = 0
    /\ lret = Nil

\* for idx, illustratorId := range illustratorIds: an error is appended to
\* errSlice, the ids of a success to artworkIdsSlice
WebIllustrator ==
    /\ lfn = WebBatch /\ lpc = "loop"
    /\ bIdx < nIds
    /\ \E a \in IllustratorAnswers :
        /\ reqLog' = Append(reqLog, [job |-> bIdx, ans |-> a])
        /\ IF a = WebErr
           THEN errSlice' = Append(errSlice, [job |-> bIdx, err |-> a]) /\ UNCHANGED artworkIds
           ELSE artworkIds' = artworkIds \o PageIds(bIdx, a.n) /\ UNCHANGED errSlice
    /\ bIdx' = bIdx + 1
    /\ UNCHANGED <<lfn, lpc, artworkType, page, minOffset, maxOffset, curOffset, params, nextUrl,
                   nIds, ugoiras, ugLeft, sleeps, calls, lret>>
    /\ UNCHANGED <<tokVars, callVars, poolVars, extVars>>

\* the errors are logged; getMultipleArtworkDetails(artworkIdsSlice, ...)
\* starts: var errSlice []error; lastArtworkId := artworkIds[artworkIdsLen-1]
WebDetailsStart ==
    /\ lfn = WebBatch /\ lpc = "loop"
    /\ bIdx = nIds
    /\ lret' = HasErr(errSlice)
    /\ errSlice' = <<>>
    /\ dIdx' = 0
    /\ IF LastIndexFaults(artworkIds)
       THEN panicked' = TRUE /\ lpc' = "panic"
       ELSE panicked' = FALSE /\ lpc' = "details"
    /\ UNCHANGED <<lfn, artworkType, page, minOffset, maxOffset, curOffset, params, nextUrl,
                   artworkIds, reqLog, nIds, bIdx, ugoiras, ugLeft, sleeps, calls>>
    /\ UNCHANGED <<tokVars, callVars, poolVars, ugoiraSlice, details, retVars, gdVars, dlVars, auxVars>>

\* for _, artworkId := range artworkIds: an error is appended to errSlice
\* (continue), the details of a success are appended, followed by
\* PixivSleep() unless artworkId == lastArtworkId
WebDetail ==
    /\ lfn = WebBatch /\ lpc = "details"
    /\ dIdx < Len(artworkIds)
    /\ \E a \in DetailAnswers :
        IF a = WebErr
        THEN /\ errSlice' = Append(errSlice, [job |-> dIdx, err |-> a])
             /\ UNCHANGED <<details, sleeps>>
        ELSE /\ details' = Append(details, artworkIds[dIdx + 1])
             /\ sleeps' = IF artworkIds[dIdx + 1] # Last(artworkIds) THEN sleeps + 1 ELSE sleeps
             /\ UNCHANGED errSlice
    /\ dIdx' = dIdx + 1
    /\ UNCHANGED <<lfn, lpc, artworkType, page, minOffset, maxOffset, curOffset, params, nextUrl,
                   artworkIds, reqLog, nIds, bIdx, ugoiras, ugLeft, calls, lret>>
    /\ UNCHANGED <<tokVars, callVars, poolVars, ugoiraSlice, panicked, retVars, gdVars, dlVars, auxVars>>

\* the range loop is over: the errors are logged, the details returned
WebDetailsEnd ==
    /\ lfn = WebBatch /\ lpc = "details"
    /\ dIdx = Len(artworkIds)
    /\ lpc' = "done"
    /\ UNCHANGED <<lfn, artworkType, page, minOffset, maxOffset, curOffset, params, nextUrl,
                   artworkIds, errSlice, reqLog, nIds, bIdx, ugoiras, ugLeft, sleeps, calls, lret>>
    /\ UNCHANGED <<tokVars, callVars, poolVars, extVars>>

NextWebBatch == WebIllustrator \/ WebDetailsStart \/ WebDetail \/ WebDetailsEnd

SpecWebBatch == InitWebBatch /\ [][NextWebBatch]_vars

(***************************************************************************)
(* GDrive.GetFolderContents: the pages of a folder listing                 *)
(***************************************************************************)
\* pageToken := "" is token 0; the tokens the API hands out
NoPageToken == 0
PageTokens == 1..MaxTokens

\* what one request for a page comes back with: a transport error, a status
\* other than 200, a body that does not unmarshal, or a GDriveFolder with n
\* files and a nextPageToken (absent: "")
GdAns(kind, n, next) == [kind |-> kind, n |-> n, next |-> next]
GdPending == GdAns("pending", 0, NoPageToken)
GdFailures == {GdAns("err", 0, NoPageToken), GdAns("bad", 0, NoPageToken),
               GdAns("undecodable", 0, NoPageToken)}
GdPages == {GdAns("page", n, t) : n \in 0..MaxEntities, t \in {NoPageToken} \cup PageTokens}
GdAnswers == GdFailures \cup GdPages

\* the errors GetFolderContents returns
GdError(a) ==
    IF a.kind = "err" THEN [msg |-> "gdrive error: connection", count |-> 0, cause |-> NetErr]
    ELSE IF a.kind = "bad" THEN [msg |-> "gdrive error: response", count |-> 0, cause |-> Res(404, TRUE)]
    ELSE [msg |-> "gdrive error: unmarshal", count |-> 0, cause |-> Res(200, FALSE)]

\* if pageToken != "" { params["pageToken"] = pageToken } else { delete(params, "pageToken") }
ParamToken(t) == t

\* a failure that returns the files of the pages fetched before it
ReturnPartial(acc) == acc
\* return nil, err
ReturnOnFailure(acc) == <<>>

\* a loop that stops at a page without files
FolderDoneOnEmptyPage(a) == a.n = 0
\* if gdriveFolder.NextPageToken == "" { break }
FolderDone(a) == a.next = NoPageToken

InitGDrive ==
    /\ TokIdle
    /\ PoolIdle
    /\ ListIdle
    /\ SeqIdle /\ RetIdle /\ DlIdle /\ AuxIdle
    /\ gpc \in {"loop", "file"}
    /\ pageToken = NoPageToken
    /\ gReqs = <<>>
    /\ files = <<>>
    /\ gret = Nil

\* top of the for loop up to request.CallRequest
GdRequest ==
    /\ gpc = "loop"
    /\ Len(gReqs) < MaxGdPages
    /\ gReqs' = Append(gReqs, [token |-> ParamToken(pageToken), ans |-> GdPending])
    /\ gpc' = "call"
    /\ UNCHANGED <<pageToken, files, gret>>
    /\ UNCHANGED <<tokVars, callVars, poolVars, lstVars, seqVars, retVars, dlVars, auxVars>>

\* request.CallRequest returned: the three failures return (nil, err); a
\* decoded page has its files appended and either ends the loop
\* (return files, nil) or sets pageToken for the next round
GdAnswer ==
    /\ gpc = "call"
    /\ \E a \in GdAnswers :
        /\ gReqs' = [gReqs EXCEPT ![Len(gReqs)].ans = a]
        /\ IF a \in GdFailures
           THEN /\ gret' = GdError(a)
                /\ files' = ReturnOnFailure(files)
                /\ gpc' = "done"
                /\ UNCHANGED pageToken
           ELSE /\ files' = files \o PageIds(Len(gReqs), a.n)
                /\ gret' = Nil
                /\ IF FolderDone(a)
                   THEN gpc' = "done" /\ UNCHANGED pageToken
                   ELSE gpc' = "loop" /\ pageToken' = a.next
    /\ UNCHANGED <<tokVars, callVars, poolVars, lstVars, seqVars, retVars, dlVars, auxVars>>

\* what the request of GetFileDetails comes back with: a failure, or a
\* GDriveFile
FileAnswers == GdFailures \cup {GdAns("page", 1, NoPageToken)}

\* GetFileDetails: request.CallRequest and what is returned for its answer:
\* (nil, err) for a transport error and for an unreadable or undecodable
\* body, (nil, nil) after LogFailedGdriveAPICalls for a status other than
\* 200, (the file, nil) otherwise
GetFileDetails ==
    /\ gpc = "file"
    /\ \E a \in FileAnswers :
        IF a.kind = "bad" THEN files' = <<>> /\ gret' = Nil
        ELSE IF a \in GdFailures THEN files' = <<>> /\ gret' = GdError(a)
        ELSE files' = PageIds(1, 1) /\ gret' = Nil
    /\ gpc' = "fileDone"
    /\ UNCHANGED <<pageToken, gReqs>>
    /\ UNCHANGED <<tokVars, callVars, poolVars, lstVars, seqVars, retVars, dlVars, auxVars>>

NextGDrive == GdRequest \/ GdAnswer \/ GetFileDetails

SpecGDrive == InitGDrive /\ [][NextGDrive]_vars

\* the listing loops that end at the first failed page: those of the mobile
\* API and GetFolderContents, one of them per run
InitListings == InitMobile \/ InitGDrive
NextListings == NextMobile \/ NextGDrive
SpecListings == InitListings /\ [][NextListings]_vars

(***************************************************************************)
(* request.DownloadUrls: the download of one file streams the response     *)
(* body to a temporary path, which is promoted to the destination on full  *)
(* success only                                                            *)
(***************************************************************************)
\* no file at a path
NoFile == -1
\* the expected sizes of a payload, in chunks
Sizes == 1..MaxChunks

InitDownload ==
    /\ TokIdle
    /\ PoolIdle
    /\ ListIdle
    /\ SeqIdle /\ RetIdle /\ GdIdle /\ AuxIdle
    /\ dpc = [f \in Files |-> "start"]
    /\ size \in [Files -> Sizes]
    /\ tmp = [f \in Files |-> NoFile]
    /\ dest = [f \in Files |-> NoFile]

\* the response arrived: the temporary file is created
DlOpen(f) ==
    /\ dpc[f] = "start"
    /\ tmp' = [tmp EXCEPT ![f] = 0]
    /\ dpc' = [dpc EXCEPT ![f] = "stream"]
    /\ UNCHANGED <<size, dest>>
    /\ UNCHANGED <<tokVars, callVars, poolVars, lstVars, seqVars, retVars, gdVars, auxVars>>

\* one more chunk of the body is written to the temporary path
DlChunk(f) ==
    /\ dpc[f] = "stream"
    /\ tmp[f] < size[f]
    /\ tmp' = [tmp EXCEPT ![f] = tmp[f] + 1]
    /\ UNCHANGED <<dpc, size, dest>>
    /\ UNCHANGED <<tokVars, callVars, poolVars, lstVars, seqVars, retVars, gdVars, auxVars>>

\* a failure that moves what was written so far to the destination
DlFailPromotes(f) ==
    /\ dpc[f] = "stream"
    /\ tmp[f] < size[f]
    /\ dest' = [dest EXCEPT ![f] = tmp[f]]
    /\ tmp' = [tmp EXCEPT ![f] = NoFile]
    /\ dpc' = [dpc EXCEPT ![f] = "failed"]
    /\ UNCHANGED size
    /\ UNCHANGED <<tokVars, callVars, poolVars, lstVars, seqVars, retVars, gdVars, auxVars>>

\* the transport fails before the body is complete: the temporary file is
\* removed or left where it is; nothing is promoted
DlFail(f) ==
    /\ dpc[f] = "stream"
    /\ tmp[f] < size[f]
    /\ \E left \in {NoFile, tmp[f]} : tmp' = [tmp EXCEPT ![f] = left]
    /\ dpc' = [dpc EXCEPT ![f] = "failed"]
    /\ UNCHANGED <<size, dest>>
    /\ UNCHANGED <<tokVars, callVars, poolVars, lstVars, seqVars, retVars, gdVars, auxVars>>

\* the whole body was written: the temporary path is promoted
DlPromote(f) ==
    /\ dpc[f] = "stream"
    /\ tmp[f] = size[f]
    /\ dest' = [dest EXCEPT ![f] = tmp[f]]
    /\ tmp' = [tmp EXCEPT ![f] = NoFile]
    /\ dpc' = [dpc EXCEPT ![f] = "done"]
    /\ UNCHANGED size
    /\ UNCHANGED <<tokVars, callVars, poolVars, lstVars, seqVars, retVars, gdVars, auxVars>>

NextDownload == \E f \in Files : DlOpen(f) \/ DlChunk(f) \/ DlFail(f) \/ DlPromote(f)

SpecDownload == InitDownload /\ [][NextDownload]_vars

(***************************************************************************)
(* utils.LogError and LogMessageToPath called by concurrent goroutines     *)
(***************************************************************************)
oldVars == <<tokVars, callVars, poolVars, lstVars, seqVars, retVars, gdVars, dlVars>>

LogArgs == [err : BOOLEAN, msg : BOOLEAN]

\* the writes one call makes to its file: LogError with err and errorMsg
\* makes two (fmt.Fprintf twice), every other call one
Writes(f, a) == IF f = "LogError" /\ a.err /\ a.msg THEN 2 ELSE 1

\* if err == nil && errorMsg == "" { return }
NothingToLog(f, a) == f = "LogError" /\ ~a.err /\ ~a.msg

\* the mutex of a function
Mutex(f) == IF f = "LogError" THEN logMut ELSE logToPathMutex

InitLog ==
    /\ TokIdle
    /\ PoolIdle
    /\ ListIdle
    /\ SeqIdle /\ RetIdle /\ GdIdle /\ DlIdle /\ NestIdle /\ DecIdle /\ TagIdle /\ CfgIdle
    /\ logPc = [c \in Callers |-> "lock"]
    /\ logFn \in [Callers -> LogFns]
    /\ logArg \in [Callers -> LogArgs]
    /\ \A c \in Callers : logFn[c] = "LogMessageToPath" => logArg[c] = [err |-> FALSE, msg |-> TRUE]
    /\ logMut = 0 /\ logToPathMutex = 0
    /\ opened = [c \in Callers |-> FALSE]
    /\ written = [f \in LogFns |-> <<>>]

\* a Lock that does not wait for the mutex
LogLockNoWait(c) ==
    /\ logPc[c] = "lock"
    /\ IF logFn[c] = "LogError"
       THEN logMut' = c /\ UNCHANGED logToPathMutex
       ELSE logToPathMutex' = c /\ UNCHANGED logMut
    /\ logPc' = [logPc EXCEPT ![c] = "open"]
    /\ UNCHANGED <<logFn, logArg, opened, written>>
    /\ UNCHANGED <<oldVars, nestVars, decVars, tagVars, cfgVars>>

\* logMut.Lock(), respectively logToPathMutex.Lock()
LogLock(c) ==
    /\ logPc[c] = "lock"
    /\ Mutex(logFn[c]) = 0
    /\ IF logFn[c] = "LogError"
       THEN logMut' = c /\ UNCHANGED logToPathMutex
       ELSE logToPathMutex' = c /\ UNCHANGED logMut
    /\ logPc' = [logPc EXCEPT ![c] = "open"]
    /\ UNCHANGED <<logFn, logArg, opened, written>>
    /\ UNCHANGED <<oldVars, nestVars, decVars, tagVars, cfgVars>>

\* os.OpenFile(..., O_WRONLY|O_CREATE|O_APPEND, 0666): LogError returns
\* before it when there is nothing to log; both return when it fails
LogOpen(c) ==
    /\ logPc[c] = "open"
    /\ \/ /\ ~NothingToLog(logFn[c], logArg[c])
          /\ opened' = [opened EXCEPT ![c] = TRUE]
          /\ logPc' = [logPc EXCEPT ![c] = "write"]
       \/ /\ logPc' = [logPc EXCEPT ![c] = "unlock"]
          /\ UNCHANGED opened
    /\ UNCHANGED <<logFn, logArg, logMut, logToPathMutex, written>>
    /\ UNCHANGED <<oldVars, nestVars, decVars, tagVars, cfgVars>>

\* fmt.Fprintf(f, ...), respectively logFile.WriteString(message)
LogWrite(c) ==
    /\ logPc[c] = "write"
    /\ LET mine == Cardinality({k \in 1..Len(written[logFn[c]]) : written[logFn[c]][k][1] = c})
       IN  IF mine < Writes(logFn[c], logArg[c])
           THEN /\ written' = [written EXCEPT ![logFn[c]] = Append(@, <<c, mine + 1>>)]
                /\ UNCHANGED logPc
           ELSE /\ logPc' = [logPc EXCEPT ![c] = "close"]
                /\ UNCHANGED written
    /\ UNCHANGED <<logFn, logArg, logMut, logToPathMutex, opened>>
    /\ UNCHANGED <<oldVars, nestVars, decVars, tagVars, cfgVars>>

\* the deferred f.Close(), which runs before the deferred Unlock
LogClose(c) ==
    /\ logPc[c] = "close"
    /\ opened' = [opened EXCEPT ![c] = FALSE]
    /\ logPc' = [logPc EXCEPT ![c] = "unlock"]
    /\ UNCHANGED <<logFn, logArg, logMut, logToPathMutex, written>>
    /\ UNCHANGED <<oldVars, nestVars, decVars, tagVars, cfgVars>>

\* the deferred logMut.Unlock(), respectively logToPathMutex.Unlock()
LogUnlock(c) ==
    /\ logPc[c] = "unlock"
    /\ IF logFn[c] = "LogError"
       THEN logMut' = 0 /\ UNCHANGED logToPathMutex
       ELSE logToPathMutex' = 0 /\ UNCHANGED logMut
    /\ logPc' = [logPc EXCEPT ![c] = "done"]
    /\ UNCHANGED <<logFn, logArg, opened, written>>
    /\ UNCHANGED <<oldVars, nestVars, decVars, tagVars, cfgVars>>

NextLog ==
    \E c \in Callers : LogLock(c) \/ LogOpen(c) \/ LogWrite(c) \/ LogClose(c) \/ LogUnlock(c)

SpecLog == InitLog /\ [][NextLog]_vars

(***************************************************************************)
(* GDrive.GetNestedFolderContents: the recursion over the sub-folders      *)
(***************************************************************************)
\* the trees: entry 1 is the folder asked for, every other entry lies in a
\* folder created before it; GetFolderContents fails for the folders in failing
ParentMaps ==
    {p \in [Nodes -> 0..(MaxNodes - 1)] : p[1] = 0 /\ \A n \in Nodes \ {1} : p[n] \in 1..(n - 1)}
Trees ==
    {t \in [parent : ParentMaps, folder : [Nodes -> BOOLEAN], failing : SUBSET Nodes] :
        /\ t.folder[1]
        /\ \A n \in Nodes \ {1} : t.folder[t.parent[n]]
        /\ \A n \in t.failing : t.folder[n]}

\* a test that takes no entry for a folder
IsFolderNever(t, n) == FALSE
\* file["mimeType"] == "application/vnd.google-apps.folder"
IsFolder(t, n) == t.folder[n]

RECURSIVE GetNestedFolderContents(_, _)
RECURSIVE RangeFolderContents(_, _, _, _)
\* for _, file := range folderContents, from entry k on, with files = acc
RangeFolderContents(t, folderId, k, acc) ==
    IF k > MaxNodes THEN GdResult(acc, FALSE)
    ELSE IF t.parent[k] # folderId THEN RangeFolderContents(t, folderId, k + 1, acc)
    ELSE IF IsFolder(t, k)
         THEN LET subFolderFiles == GetNestedFolderContents(t, k)
              IN  IF subFolderFiles.err THEN GdResult(<<>>, TRUE)
                  ELSE RangeFolderContents(t, folderId, k + 1, acc \o subFolderFiles.files)
         ELSE RangeFolderContents(t, folderId, k + 1, Append(acc, k))

GetNestedFolderContents(t, folderId) ==
    IF folderId \in t.failing THEN GdResult(<<>>, TRUE)
    ELSE RangeFolderContents(t, folderId, 1, <<>>)

InitNested ==
    /\ TokIdle
    /\ PoolIdle
    /\ ListIdle
    /\ SeqIdle /\ RetIdle /\ GdIdle /\ DlIdle /\ LogIdle /\ DecIdle /\ TagIdle /\ CfgIdle
    /\ tree \in Trees
    /\ npc = "call"
    /\ nested = GdResult(<<>>, FALSE)

\* the caller's gdrive.GetNestedFolderContents(folderId, ...) returns
NestedCall ==
    /\ npc = "call"
    /\ nested' = GetNestedFolderContents(tree, 1)
    /\ npc' = "done"
    /\ UNCHANGED tree
    /\ UNCHANGED <<oldVars, logVars, decVars, tagVars, cfgVars>>

NextNested == NestedCall

SpecNested == InitNested /\ [][NextNested]_vars

(***************************************************************************)
(* PixivDownloadProcess: the loop over pixivDl.TagNames                    *)
(***************************************************************************)
\* if len(pixivDl.TagNames) > 0 { ...; progress.Start(); hasErr := false
InitTags ==
    /\ TokIdle
    /\ PoolIdle
    /\ ListIdle
    /\ SeqIdle /\ RetIdle /\ GdIdle /\ DlIdle /\ LogIdle /\ NestIdle /\ DecIdle /\ CfgIdle
    /\ mobileClient \in BOOLEAN
    /\ \E n \in 1..MaxTags : tagErrs \in [1..n -> BOOLEAN]
    /\ tagIdx = 0
    /\ hasErr = FALSE
    /\ stopped = "no"

\* for idx, tagName := range pixivDl.TagNames:
\* artworksSlice, ugoiraSlice, hasErr = tagSearch(...), of the web or of
\* the mobile client
TagSearchNext ==
    /\ stopped = "no"
    /\ tagIdx < Len(tagErrs)
    /\ hasErr' = tagErrs[tagIdx + 1]
    /\ tagIdx' = tagIdx + 1
    /\ UNCHANGED <<mobileClient, tagErrs, stopped>>
    /\ UNCHANGED <<oldVars, logVars, nestVars, decVars, cfgVars>>

\* progress.Stop(hasErr)
TagsStop ==
    /\ stopped = "no"
    /\ tagIdx = Len(tagErrs)
    /\ stopped' = IF hasErr THEN "err" ELSE "ok"
    /\ UNCHANGED <<mobileClient, tagErrs, tagIdx, hasErr>>
    /\ UNCHANGED <<oldVars, logVars, nestVars, decVars, cfgVars>>

NextTags == TagSearchNext \/ TagsStop

SpecTags == InitTags /\ [][NextTags]_vars

(***************************************************************************)
(* The config file: SetDefaultDownloadPath and GetDefaultDownloadPath      *)
(***************************************************************************)
Paths == 1..MaxPaths
Languages == {"en", "ja"}
Digests == {"sha256", "sha512"}
EmptyFile == CfgFile("corrupt", NoPath, "", "", FALSE)
ConfigFiles ==
    {NoConfigFile, EmptyFile, CfgFile("unreadable", NoPath, "", "", FALSE)}
    \cup {CfgFile("json", d, l, m, x) :
            d \in Paths \cup {NoPath}, l \in Languages, m \in Digests, x \in BOOLEAN}

\* os.Stat finds the path
PathExists(p) == p \in existing

\* type ConfigFile and json.Unmarshal(configFile, &config): the keys that are
\* no field of ConfigFile are dropped
Unmarshal(f) ==
    [DownloadDir |-> f.download_directory, Language |-> f.language,
     ClientDigestMethod |-> f.client_digest_method]

\* json.Marshal(config) and PretifyJSON
Marshal(c) ==
    CfgFile("json", c.DownloadDir, c.Language, c.ClientDigestMethod, FALSE)

\* a comparison that finds every config up to date
UpToDateAlways(c, p) == TRUE

\* if config.DownloadDir == newDownloadPath { return nil }
UpToDate(c, p) == c.DownloadDir = p

InitConfig ==
    /\ TokIdle
    /\ PoolIdle
    /\ ListIdle
    /\ SeqIdle /\ RetIdle /\ GdIdle /\ DlIdle /\ LogIdle /\ NestIdle /\ DecIdle /\ TagIdle
    /\ config \in ConfigFiles
    /\ existing \in SUBSET Paths
    /\ lastOp = "none"
    /\ setPath = NoPath
    /\ setRet = "none"
    /\ cfgBefore = NoConfigFile
    /\ getRet = NoPath

\* os.WriteFile(configFilePath, configFile, 0666): the file holds configFile
\* and nil is returned, or an error is returned and the file is as it was,
\* or empty (os.Create and os.WriteFile truncate before they write)
WriteFile(f) ==
    \/ config' = f /\ setRet' = "nil"
    \/ config' \in {config, EmptyFile} /\ setRet' = "err"

\* SetDefaultDownloadPath(newDownloadPath)
SetDefaultDownloadPath ==
    /\ \E p \in Paths \cup {NoPath} :
        /\ setPath' = p
        /\ IF ~PathExists(p)
              THEN setRet' = "err" /\ UNCHANGED config
           ELSE IF config.kind = "absent"
              THEN \E m \in Digests :
                     WriteFile(Marshal([DownloadDir |-> p, Language |-> "en",
                                        ClientDigestMethod |-> m]))
           ELSE IF config.kind # "json"
              THEN setRet' = "err" /\ UNCHANGED config
           ELSE IF UpToDate(Unmarshal(config), p)
              THEN setRet' = "nil" /\ UNCHANGED config
           ELSE WriteFile(Marshal([Unmarshal(config) EXCEPT !.DownloadDir = p]))
    /\ cfgBefore' = config
    /\ lastOp' = "set"
    /\ UNCHANGED <<existing, getRet>>
    /\ UNCHANGED <<oldVars, logVars, nestVars, decVars, tagVars>>

\* GetDefaultDownloadPath(): a config that cannot be read or decoded is
\* removed (os.Remove, its error ignored)
GetDefaultDownloadPath ==
    /\ IF config.kind = "absent"
          THEN getRet' = NoPath /\ UNCHANGED config
       ELSE IF config.kind # "json"
          THEN getRet' = NoPath /\ config' \in {NoConfigFile, config}
       ELSE IF ~PathExists(Unmarshal(config).DownloadDir)
          THEN getRet' = NoPath /\ UNCHANGED config
       ELSE getRet' = Unmarshal(config).DownloadDir /\ UNCHANGED config
    /\ lastOp' = "get"
    /\ UNCHANGED <<existing, setPath, setRet, cfgBefore>>
    /\ UNCHANGED <<oldVars, logVars, nestVars, decVars, tagVars>>

NextConfig == SetDefaultDownloadPath \/ GetDefaultDownloadPath

SpecConfig == InitConfig /\ [][NextConfig]_vars

(***************************************************************************)
(* Properties of SendRequest and of the token refresh                      *)
(***************************************************************************)
Done(c) == pc[c] = "done"
Attempts(c) == Len(hist[c])
AllAnswers(c, P(_)) == \A k \in 1..Len(hist[c]) : P(hist[c][k])

\* the caller found the token unset or expired in RefreshTokenIfReq
FoundInvalid(c) == pc[c] \in {"lock", "exchange", "storeToken", "storeExpiry"} \/ refreshed[c]

\* C1: when all concurrent callers found the token unset or expired, one
\* exchange with the auth server is performed and the other callers wait for
\* it and use its token: no caller performs a further exchange while the
\* token stored by an earlier exchange is valid.
C1_ExactlyOneRefresh ==
    \A c \in Callers :
        (pc[c] = "exchange" /\ \A d \in Callers : FoundInvalid(d))
            => ~(exchanges >= 1 /\ TokenValid(accessToken, expiresAt, now))

\* C2: every transport attempt of SendRequest carries the Authorization
\* header built from the access token that is stored when the attempt is
\* sent, also after SendRequest refreshed the token itself.
C2_AttemptsCarryCurrentToken ==
    \A c \in Callers : Len(hist[c]) >= 1 => reqAuth[c] = sentWith[c]

IsOk200(r) == r = Ok200

\* C3: after a refresh in SendRequest, a transport that answers every attempt
\* with 200 and a decodable body makes SendRequest return nil after at most
\* two attempts.
C3_RefreshThenSuccess ==
    \A c \in Callers :
        (Done(c) /\ refreshed[c] /\ Attempts(c) >= 1 /\ AllAnswers(c, IsOk200))
            => (ret[c] = Nil /\ Attempts(c) <= 2)

Is404(r) == r.kind = "res" /\ r.status = 404

\* the call ran with a valid token (no refresh), CheckStatus set, and has returned
ValidTokenCall(c) == Done(c) /\ ~refreshed[c] /\ checkStatus[c] /\ Attempts(c) >= 1

IsRetriableFailure(r) == r.kind = "err" \/ (r.kind = "res" /\ r.status \in {429} \cup 500..599)

\* C8: with a valid token and CheckStatus set, a transport that fails on its
\* first k < RETRY_COUNTER attempts and then answers 200 with a decodable
\* body makes SendRequest return nil after exactly k+1 attempts; as long as
\* every answer was a failure the call goes on up to the ceiling.
C8_SuccessAfterKFailures ==
    \A c \in Callers :
        ValidTokenCall(c) =>
            /\ \A k \in 0..(RETRY_COUNTER - 1) :
                  ( /\ Attempts(c) >= k + 1
                    /\ \A j \in 1..k : IsRetriableFailure(hist[c][j])
                    /\ hist[c][k + 1] = Ok200 )
                  => (Attempts(c) = k + 1 /\ ret[c] = Nil)
            /\ AllAnswers(c, IsRetriableFailure) => Attempts(c) = RETRY_COUNTER

C8_Witness ==
    \E c \in Callers :
        /\ ValidTokenCall(c) /\ Attempts(c) = 3 /\ ret[c] = Nil
        /\ hist[c][1] = Res(429, TRUE) /\ hist[c][2] = Res(500, TRUE) /\ hist[c][3] = Ok200

\* an attempt the loop accepts: a response, with status 200 when the status
\* is checked
Succeeded(c, r) == r.kind = "res" /\ (checkStatus[c] => r.status = 200)

\* C9: one call of SendRequest issues at most RETRY_COUNTER attempts, one
\* after another (attempt k is answered before attempt k+1 is sent), returns
\* an error when no attempt succeeded, and always returns.
C9_BoundedAttempts ==
    /\ [](\A c \in Callers :
            /\ Attempts(c) <= RETRY_COUNTER
            /\ pc[c] = "inFlight" => Attempts(c) = i[c]
            /\ pc[c] = "loop" => Attempts(c) = i[c] - 1
            /\ (Done(c) /\ \A k \in 1..Attempts(c) : ~Succeeded(c, hist[c][k])) => ret[c] # Nil)
    /\ <>(\A c \in Callers : pc[c] \in {"done", "idle"})

C9_Witness ==
    \E c \in Callers :
        /\ Done(c) /\ Attempts(c) = RETRY_COUNTER /\ ret[c] = ExhaustedErr
        /\ \A k \in 1..Attempts(c) : ~Succeeded(c, hist[c][k])

\* the call used all its attempts and failed
ExhaustedCall(c) == Done(c) /\ Attempts(c) = RETRY_COUNTER /\ ret[c] # Nil
IsFailure(r) == r.kind = "err" \/ (r.kind = "res" /\ r.status # 200)

Count(ch, j) == Cardinality({k \in 1..Len(ch) : ch[k].job = j})

\* wg.Wait() has returned
Waited == mainPc \in {"closeChans", "parse", "returned"}

\* the goroutines whose HTTP request is in flight
InFlight == {j \in Jobs : worker[j] = "request"}

\* C4: in getPostDetails, once wg.Wait returns every submitted post ID has
\* exactly one outcome, in exactly one of resChan and errChan, and
\* len(resChan) + len(errChan) = N.
C4_OneOutcomePerJob ==
    (fn = "getPostDetails" /\ Waited) =>
        /\ Len(resChan) + Len(errChan) = njobs
        /\ \A j \in 1..njobs : Count(resChan, j) + Count(errChan, j) = 1
        /\ \A k \in 1..Len(resChan) : resChan[k].job \in 1..njobs
        /\ \A k \in 1..Len(errChan) : errChan[k].job \in 1..njobs

C4_Witness ==
    /\ fn = "getPostDetails" /\ mainPc = "parse" /\ njobs >= 2
    /\ Len(resChan) >= 1 /\ Len(errChan) >= 1
    /\ Len(resChan) + Len(errChan) = njobs

\* C5: in both pools the number of jobs whose HTTP request is in flight never
\* exceeds min(MAX_API_CALLS, number of jobs).
C5_BoundedConcurrency ==
    /\ Cardinality(InFlight) <= MAX_API_CALLS
    /\ Cardinality(InFlight) <= Cardinality(Submitted)
    /\ InFlight \subseteq Submitted

C5_Witness ==
    /\ Cardinality(Submitted) > MAX_API_CALLS
    /\ Cardinality(InFlight) = MAX_API_CALLS
    /\ mainPc = "acquire"

\* C6: a panic inside one job does not crash the pool: the process goes on,
\* and when the pool returns the job that panicked has an error outcome and
\* every other submitted job has its outcome.
C6_PanicIsolated ==
    /\ ~crashed
    /\ (fn = "getPostDetails" /\ mainPc = "parse") =>
          \A j \in Submitted :
              /\ Count(resChan, j) + Count(errChan, j) = 1
              /\ worker[j] = "panicked" => Count(errChan, j) = 1

(***************************************************************************)
(* Decode failures, the mutex, refresh failures                            *)
(***************************************************************************)
DecodeFailed(r) == r.kind = "res" /\ ~r.decodable

\* C11: a decode failure is terminal in SendRequest: after an attempt whose
\* body failed to decode no further attempt is issued, and SendRequest
\* returns a non-nil error, whatever the attempt number and the status.
C11_DecodeFailureTerminal ==
    \A c \in Callers : \A k \in 1..Attempts(c) :
        DecodeFailed(hist[c][k]) =>
            /\ k = Attempts(c)
            /\ Done(c) => ret[c] # Nil

\* positions whose next step reads accessTokenMap (GetHeaders,
\* RefreshTokenIfReq) and positions whose next step writes it
Reading(c) == pc[c] \in {"args", "check", "checkExp", "headers"}
Writing(c) == pc[c] \in {"storeToken", "storeExpiry"}

\* C12: the credential is only accessed under accessTokenMu: no goroutine is
\* reading it in GetHeaders or RefreshTokenIfReq while another goroutine is
\* writing it in RefreshAccessToken.
C12_NoConcurrentReadWrite ==
    \A c, d \in Callers : (c # d /\ Writing(d)) => ~Reading(c)

\* C13: a failed refresh makes RefreshAccessToken return an error with
\* accessToken and expiresAt unchanged (and the mutex released), and the
\* SendRequest that triggered it returns that error without any attempt.
C13_RefreshFailure ==
    /\ [](\A c \in Callers :
            /\ (Done(c) /\ ret[c] \in RefreshErrors) => (Attempts(c) = 0 /\ refreshed[c])
            /\ (Done(c) /\ Attempts(c) = 0) => ret[c] \in RefreshErrors)
    /\ [][\A c \in Callers :
            (pc[c] = "exchange" /\ pc'[c] \notin {"exchange", "storeToken"}) =>
                /\ accessToken' = accessToken /\ expiresAt' = expiresAt
                /\ accessTokenMu' = 0
                /\ pc'[c] = "done" /\ ret'[c] \in RefreshErrors
                /\ hist'[c] = <<>>]_vars

C13_Witness ==
    \E c \in Callers :
        /\ Done(c) /\ ret[c] = RefreshConnErr /\ Attempts(c) = 0
        /\ accessToken = OldToken /\ exchanges = 1 /\ accessTokenMu = 0

(***************************************************************************)
(* The pools are synchronous                                               *)
(***************************************************************************)
\* C20: resChan/errChan are closed, and the results read, only after every
\* goroutine the loop started has finished: no goroutine sends on a closed
\* channel and no outcome is produced after the results are read.
C20_SynchronousBatch ==
    /\ ~crashed
    /\ (mainPc \in {"closeChans", "parse"} \/ chansClosed) =>
          /\ \A j \in Submitted : worker[j] = "finished"
          /\ \A j \in Jobs \ Submitted : worker[j] = "none"
          /\ Len(resChan) + Len(errChan) + Len(logged) = Cardinality(Submitted)

C20_Witness ==
    /\ chansClosed /\ mainPc = "parse" /\ ~crashed
    /\ Cardinality(Submitted) >= 2
    /\ \A j \in Submitted : worker[j] = "finished"

(***************************************************************************)
(* The listing loop of the web tagSearch                                   *)
(***************************************************************************)
WebDone == lfn = "webTagSearch" /\ lpc = "done"
Answered(k) == reqLog[k].ans # Pending
NonEmptyPage(a) == a.kind = "ids" /\ a.n > 0
IsEmptyPage(a) == a.kind = "ids" /\ a.n = 0
\* every request answered so far delivered a non-empty page
AllNonEmpty == \A k \in 1..Len(reqLog) : Answered(k) => NonEmptyPage(reqLog[k].ans)

\* C15: with minPage <= maxPage both set and a non-empty list on every page,
\* the web tagSearch requests p = minPage, minPage+1, ..., maxPage, each once
\* and in increasing order, and then the loop is done.
C15_WebPagesInRange ==
    (lfn = "webTagSearch" /\ hasMax /\ minPage <= maxPage /\ AllNonEmpty) =>
        /\ \A k \in 1..Len(reqLog) : reqLog[k].p = minPage + k - 1
        /\ Len(reqLog) <= maxPage - minPage + 1
        /\ lpc = "done" <=> (Len(reqLog) = maxPage - minPage + 1 /\ page = maxPage + 1)

C15_Witness ==
    /\ WebDone /\ hasMax /\ minPage = 2 /\ maxPage = MaxPage /\ AllNonEmpty
    /\ Len(reqLog) = MaxPage - 1 /\ reqLog[1].p = 2 /\ reqLog[Len(reqLog)].p = MaxPage

RECURSIVE IdsOf(_)
\* the ids of the answers of a sequence of requests, in request order
IdsOf(log) ==
    IF log = <<>> THEN <<>>
    ELSE IdsOf(SubSeq(log, 1, Len(log) - 1)) \o
         (IF NonEmptyPage(Last(log).ans) THEN PageIds(Last(log).p, Last(log).ans.n) ELSE <<>>)

\* pages 1..k-1 answered a non-empty list and page k an empty one
EmptyAtLast ==
    /\ Len(reqLog) >= 1
    /\ IsEmptyPage(Last(reqLog).ans)
    /\ \A k \in 1..(Len(reqLog) - 1) : NonEmptyPage(reqLog[k].ans)

\* C17: with maxPage unset, non-empty pages 1..k-1 and an empty page k, the
\* web tagSearch issues exactly k listing requests (pages 1..k), accumulates
\* exactly the ids of pages 1..k-1 in page order and records no error.
C17_StopsAtEmptyPage ==
    (lfn = "webTagSearch" /\ ~hasMax /\ minPage = 1 /\ EmptyAtLast) =>
        /\ lpc = "done"
        /\ \A k \in 1..Len(reqLog) : reqLog[k].p = k
        /\ artworkIds = IdsOf(reqLog)
        /\ Len(artworkIds) = Len(IdsOf(SubSeq(reqLog, 1, Len(reqLog) - 1)))
        /\ errSlice = <<>> /\ lret = Nil

C17_Witness ==
    /\ WebDone /\ ~hasMax /\ minPage = 1 /\ EmptyAtLast
    /\ Len(reqLog) = 3
    /\ reqLog[1].ans.n = MaxEntities /\ reqLog[2].ans.n = MaxEntities
    /\ Len(artworkIds) = 2 * MaxEntities

(***************************************************************************)
(* The mobile batch and the mobile listing loops                           *)
(***************************************************************************)
\* a job of the batch failed because the token refresh failed
RefreshFailedInBatch ==
    lfn = Batch /\ \E k \in 1..Len(errSlice) : errSlice[k].err \in RefreshErrors

\* C14: once a token refresh has failed for a job of getMultipleArtworkDetails,
\* no further refresh exchange and no further API request is issued for the
\* remaining jobs of the batch.
C14_RefreshFailureIsFatal ==
    [][RefreshFailedInBatch =>
          /\ exchanges' = exchanges
          /\ Len(hist'[1]) <= Len(hist[1])]_vars

\* the requests of one type, in order
RECURSIVE OfType(_, _)
OfType(log, t) ==
    IF log = <<>> THEN <<>>
    ELSE OfType(SubSeq(log, 1, Len(log) - 1), t) \o
         (IF Last(log).type = t THEN <<Last(log)>> ELSE <<>>)

SingleType == lfn = "tagSearch" \/ (lfn = "GetIllustratorPosts" /\ artworkType # "all")
\* every request answered so far succeeded and delivered a next url
AllHaveNext == \A k \in 1..Len(reqLog) : reqLog[k].ans \in {"pending", "next"}
\* the for loop was left
LoopOver == lpc \in {"ugoira", "ugoiraCall", "done"} \/ (lpc = "loop" /\ ~nextUrl)

\* C16: in the mobile listing loops for a single type with the range
\* minPage..maxPage, while the upstream delivers a next url the offsets
\* requested are (minPage-1)*30, minPage*30, ..., (maxPage-1)*30, one request
\* per page and in that order, and then the loop stops.
C16_MobileOffsetsInRange ==
    (SingleType /\ hasMax /\ minPage <= maxPage /\ AllHaveNext) =>
        /\ \A k \in 1..Len(reqLog) : reqLog[k].offset = (minPage + k - 2) * PerPage
        /\ Len(reqLog) <= maxPage - minPage + 1
        /\ LoopOver <=> (Len(reqLog) = maxPage - minPage + 1 /\ Last(reqLog).ans = "next")


\* C18: with both minPage and maxPage set and minPage > maxPage, a mobile
\* listing loop (GetIllustratorPosts, tagSearch) sends no listing request.
C18_EmptyRangeNoRequest ==
    (lfn \in Listings /\ hasMax /\ minPage > maxPage) =>
        ~(lpc = "call" /\ Attempts(1) >= 1)

\* C19: with artworkType "all" the first request of the manga pass of
\* GetIllustratorPosts carries offset = minOffset, as the first request of
\* the illust pass does.
C19_MangaStartsAtMinOffset ==
    (lfn = "GetIllustratorPosts" /\ artworkType = "all") =>
        /\ Len(OfType(reqLog, "illust")) >= 1 => OfType(reqLog, "illust")[1].offset = minOffset
        /\ Len(OfType(reqLog, "manga")) >= 1 => OfType(reqLog, "manga")[1].offset = minOffset

(***************************************************************************)
(* Admission slots, identities and results of the pools                    *)
(***************************************************************************)
\* the goroutines that hold a slot of queue: started and not yet past <-queue
Running == {j \in Jobs : worker[j] \in {"request", "deliver", "release"}}

\* C21: every job of a pool takes one slot of queue before it starts and gives
\* it back on every completion path, so the slots taken equal the running
\* jobs, never exceed the capacity, and are 0 once wg.Wait() has returned.
C21_SlotAccounting ==
    /\ queue = Cardinality(Running)
    /\ queue <= QueueCap(njobs)
    /\ Waited => queue = 0

C21_Witness ==
    /\ Waited /\ queue = 0 /\ Cardinality(Submitted) >= 2
    /\ \E j, k \in Submitted :
          /\ worker[j] = "finished" /\ Outcome(fn, wres[j]) # "resChan"
          /\ worker[k] = "finished" /\ Outcome(fn, wres[k]) = "resChan"

\* C22: every error outcome of getPostDetails names the post it belongs to.
C22_ErrorsCarryJob ==
    fn = "getPostDetails" => \A k \in 1..Len(errChan) : errChan[k].id = errChan[k].job

Returned == mainPc = "returned"

\* C24: when the request for a page fails in getFanboxPosts, its caller
\* receives the failure (a non-nil error) together with the post ids of the
\* pages that succeeded.
C24_FailuresReturned ==
    (fn = "getFanboxPosts" /\ Returned) =>
        /\ postIds = {resChan[k].job : k \in 1..Len(resChan)}
        /\ logged # <<>> => pret # Nil

(***************************************************************************)
(* Ugoira metadata and the waits of the mobile API                         *)
(***************************************************************************)
\* C23: when the metadata request of GetUgoiraMetadata fails, no Ugoira entry
\* for the artwork is added to the list CheckForUgoira returns.
C23_NoUgoiraForFailedMetadata ==
    \A k \in 1..Len(ugoiraSlice) : ugoiraSlice[k].err = Nil

\* a request to the mobile API is running
InCall == lpc \in {"call", "ugoiraCall"}

\* C26: between two consecutive requests to the mobile API there is exactly
\* one pixiv.Sleep(): the waits made when a request starts equal the requests
\* made before it, also after a failed request and between the details of an
\* artwork and its ugoira metadata.
C26_OneWaitBetweenRequests ==
    (lfn \in Listings \cup {Batch} /\ InCall) => sleeps = calls - 1

(***************************************************************************)
(* The sequential batches                                                  *)
(***************************************************************************)
\* the illustrators whose request failed
FailedIllustrators == {reqLog[k].job : k \in {n \in 1..Len(reqLog) : reqLog[n].ans = WebErr}}

\* C25: a failing job never aborts its sequential batch (web
\* getMultipleIllustratorPosts): the failure is recorded, every later id is
\* still processed and the batch returns the details of what succeeded.
C25_FailureNeverAborts ==
    (lfn = WebBatch /\ FailedIllustrators # {}) =>
        /\ ~panicked
        /\ lpc \in {"panic", "details", "done"} => Len(reqLog) = nIds

(***************************************************************************)
(* The token states                                                        *)
(***************************************************************************)
\* C27: a successful RefreshAccessToken stores expiresAt = now + (TTL - 15)
\* and leaves the token valid for a RefreshTokenIfReq evaluated right after
\* it, whatever TTL the auth server declared (TTL <= 15 included).
C27_RefreshMakesValid ==
    [][\A c \in Callers :
        (pc[c] = "storeExpiry" /\ pc'[c] = "headers") =>
            /\ expiresAt' = now + (oauth[c].ttl - TokenMargin)
            /\ TokenValid(accessToken', expiresAt', now')]_vars

\* C28: RefreshTokenIfReq refreshes if and only if the access token is empty
\* or expiresAt is not after the current time; with a valid token it returns
\* refreshed = false and leaves accessToken and expiresAt as they were.
C28_RefreshIffNotValid ==
    [][\A c \in Callers :
        (pc[c] \in {"check", "checkExp"} /\ pc'[c] \notin {"check", "checkExp"}) =>
            /\ pc'[c] \in {"lock", "headers"}
            /\ pc'[c] = "lock" <=> ~TokenValid(accessToken, expiresAt, now)
            /\ pc'[c] = "headers" =>
                /\ refreshed'[c] = FALSE
                /\ accessToken' = accessToken
                /\ expiresAt' = expiresAt]_vars

\* RefreshTokenIfReq found the token valid and returned (false, nil)
C28_Witness ==
    /\ pc[1] = "headers"
    /\ refreshed[1] = FALSE
    /\ exchanges = 0
    /\ TokenValid(accessToken, expiresAt, now)

(***************************************************************************)
(* GetFolderContents                                                       *)
(***************************************************************************)
RECURSIVE FilesOfPages(_, _)
\* the files of the first k pages of a request log, in page order
FilesOfPages(log, k) ==
    IF k = 0 THEN <<>> ELSE FilesOfPages(log, k - 1) \o PageIds(k, log[k].ans.n)

\* C29: GetFolderContents follows the continuation token until it is absent:
\* the first request carries no pageToken, every later request carries the
\* nextPageToken of the response before it, no request follows a response
\* with an empty nextPageToken, and the list returned is the concatenation,
\* in page order, of the files of every page fetched.
C29_FollowsPageToken ==
    /\ Len(gReqs) >= 1 => gReqs[1].token = NoPageToken
    /\ \A k \in 2..Len(gReqs) :
        /\ gReqs[k - 1].ans.kind = "page"
        /\ gReqs[k - 1].ans.next # NoPageToken
        /\ gReqs[k].token = gReqs[k - 1].ans.next
    /\ (gpc = "done" /\ gret = Nil) =>
        /\ gReqs[Len(gReqs)].ans.kind = "page"
        /\ gReqs[Len(gReqs)].ans.next = NoPageToken
        /\ files = FilesOfPages(gReqs, Len(gReqs))
    /\ (gpc = "loop" /\ Len(gReqs) >= 1) => gReqs[Len(gReqs)].ans.next # NoPageToken

\* a folder of three pages, the first two with files, was listed in full
C29_Witness ==
    /\ gpc = "done" /\ gret = Nil
    /\ Len(gReqs) = 3
    /\ gReqs[1].ans.n >= 1 /\ gReqs[2].ans.n >= 1
    /\ gReqs[2].token # gReqs[3].token

(***************************************************************************)
(* Downloads                                                               *)
(***************************************************************************)
\* C30: a download that fails after part of the bytes were written never
\* leaves a file at the destination: the bytes go to a temporary path, a
\* file at the destination is always a complete one of a finished download,
\* and after a failure the temporary file is gone or still unpromoted.
C30_NoPartialFileAtDestination ==
    \A f \in Files :
        /\ dpc[f] = "failed" => dest[f] = NoFile /\ tmp[f] < size[f]
        /\ dest[f] # NoFile => dpc[f] = "done" /\ dest[f] = size[f]
        /\ dpc[f] = "stream" => dest[f] = NoFile

\* one download failed after a part of its bytes was written and left its
\* temporary file behind, another one was promoted
C30_Witness ==
    \E f, g \in Files :
        /\ dpc[f] = "failed" /\ tmp[f] >= 1 /\ dest[f] = NoFile
        /\ dpc[g] = "done" /\ dest[g] = size[g]

(***************************************************************************)
(* Logging                                                                 *)
(***************************************************************************)
\* the callers of f that hold its file open
Holding(f) == {c \in Callers : logFn[c] = f /\ opened[c]}

\* C31: LogError and LogMessageToPath are thread-safe: at most one caller of
\* each function is between opening and closing the log file, and the
\* writes of one call are never interleaved with those of another call of
\* the same function.
C31_LogsSerialized ==
    \A f \in LogFns :
        /\ Cardinality(Holding(f)) <= 1
        /\ \A a, b, k \in 1..Len(written[f]) :
            (a < k /\ k < b /\ written[f][a][1] = written[f][b][1]) =>
                written[f][k][1] = written[f][a][1]

\* two calls of LogError, one of them with two writes, have both finished
C31_Witness ==
    /\ Len(written["LogError"]) >= 3
    /\ \A c \in Callers : logPc[c] = "done"

(***************************************************************************)
(* GetNestedFolderContents                                                 *)
(***************************************************************************)
\* C32: for a finite acyclic folder tree GetNestedFolderContents returns
\* exactly the non-folder files of the folder and of its sub-folders at any
\* depth: no folder among them, every file once; the recursion ends.
C32_AllFilesOnce ==
    (npc = "done" /\ ~nested.err) =>
        /\ \A k \in 1..Len(nested.files) : ~tree.folder[nested.files[k]]
        /\ {nested.files[k] : k \in 1..Len(nested.files)} = {n \in Nodes : ~tree.folder[n]}
        /\ Len(nested.files) = Cardinality({n \in Nodes : ~tree.folder[n]})

\* files at depth one and at depth three were returned
C32_Witness ==
    /\ npc = "done" /\ ~nested.err
    /\ Len(nested.files) >= 2
    /\ \E n \in Nodes : tree.parent[n] = 1 /\ ~tree.folder[n]
    /\ \E n \in Nodes : ~tree.folder[n] /\ tree.parent[n] > 1 /\ tree.parent[tree.parent[n]] > 1

C34_EmptyListReturnsEmpty ==
    (lfn = WebBatch /\ lpc # "loop" /\ Len(artworkIds) = 0) =>
        /\ ~panicked
        /\ lpc \in {"details", "done"}
        /\ details = <<>>

(***************************************************************************)
(* The decode target of SendRequest                                        *)
(***************************************************************************)
\* C35: whenever SendRequest returns nil, the decode target the caller
\* supplied holds the decoded body of the final attempt's response, so that
\* the pagination loops see the next url and the illusts of the page.
C35_TargetHoldsBody ==
    lfn \in Listings \cup {Batch} => resJson = TargetHoldsBody(resBody)

(***************************************************************************)
(* The status of the tag searches                                          *)
(***************************************************************************)
\* C36: PixivDownloadProcess stops the tag-search progress with the error
\* status if and only if at least one tag search of the run reported an
\* error, wherever the failing tag stands in TagNames.
C36_StopReportsAnyError ==
    stopped # "no" =>
        (stopped = "err" <=> \E k \in 1..Len(tagErrs) : tagErrs[k])

(***************************************************************************)
(* Failures of the listing loops                                           *)
(***************************************************************************)
\* the positions of the failed page requests of the mobile loop, of GetFolderContents
MobFailed == {k \in 1..Len(reqLog) : reqLog[k].ans = "err"}
GdFailed == {k \in 1..Len(gReqs) : gReqs[k].ans \in GdFailures}

\* C37: the mobile listing loops and GetFolderContents are all-or-nothing:
\* when the request for a page fails the function reports the failure,
\* returns no entity at all, also none of the pages fetched before, and
\* sends no further page request.
C37_AllOrNothing ==
    /\ (lfn \in Listings /\ MobFailed # {}) =>
        /\ MobFailed = {Len(reqLog)}
        /\ lpc = "done" /\ lret # Nil
        /\ ugoiraSlice = <<>> /\ details = <<>>
    /\ GdFailed # {} =>
        /\ GdFailed = {Len(gReqs)}
        /\ gpc = "done" /\ gret # Nil
        /\ files = <<>>

\* GetFolderContents failed on its third page after two pages with files
C37_Witness ==
    /\ GdFailed = {3}
    /\ gReqs[1].ans.n >= 1 /\ gReqs[2].ans.n >= 1
    /\ gpc = "done" /\ gret # Nil

(***************************************************************************)
(* GetFileDetails                                                          *)
(***************************************************************************)
\* C38: GetFileDetails yields exactly one of a result or an error, never
\* (nil, nil); a non-200 answer of the API comes back as a non-nil error.
C38_ResultOrError ==
    gpc = "fileDone" => (files = <<>> <=> gret # Nil)

(***************************************************************************)
(* Termination of the worker pools                                         *)
(***************************************************************************)
\* C39: when every request returns, getPostDetails and getFanboxPosts
\* eventually return, for every number of jobs and every scheduling: no
\* goroutine blocks forever on sending its outcome or on releasing its slot,
\* and the submitter never blocks forever on acquiring a slot.
C39_PoolReturns == <>Returned

\* a call with more jobs than slots, so that the submitter had to wait for a
\* slot, has returned after every goroutine sent its outcome and released
C39_Witness ==
    /\ Returned
    /\ Cardinality(Submitted) > MAX_API_CALLS
    /\ \A j \in Submitted : worker[j] = "finished"
    /\ queue = 0 /\ queueClosed

====
